---- MODULE Spec2Model ----
(***************************************************************************)
(* A model of the MQTT broker of src/bin/server.rs and of the packet codec *)
(* of src/packets/*.rs.                                                    *)
(*                                                                         *)
(* Frames are byte sequences (sequences of numbers 0..255), and the        *)
(* decoders and encoders are operators over them, written as the Rust code *)
(* computes them.  A std::io::Cursor position is 0-based: the byte at      *)
(* position pos of data is data[pos + 1].                                  *)
(***************************************************************************)
EXTENDS Integers, Sequences, FiniteSets, TLC

(***************************************************************************)
(* Bounds of the model.                                                    *)
(***************************************************************************)
\* connections the acceptor accepts in one run
NConn == 2
\* frames the reads of the loop return, all connections together (the
\* initial read of each connection is not counted)
MaxFrames == 3

\* bytes of the longest payload and of the longest property value of the
\* packets that are built to be encoded and decoded
MaxBody == 2
\* topic filters of the longest SUBSCRIBE packet that is built to be encoded
\* and decoded
MaxFilters == 2

Conn == 1..NConn

(***************************************************************************)
(* Byte helpers.                                                           *)
(***************************************************************************)
U16(hi, lo) == hi * 256 + lo
Hi(n) == (n \div 256) % 256
Lo(n) == n % 256
CanRead(data, pos, n) == pos + n <= Len(data)
Slice(data, pos, n) == SubSeq(data, pos + 1, pos + n)
\* String::from_utf8 restricted to the byte values the model sends: a
\* sequence of bytes below 0x80 is valid UTF-8, a byte 0x80..0xFF alone is not
Utf8Ok(s) == \A i \in 1..Len(s) : s[i] < 128
Fail == [ok |-> FALSE]

\* the topic names the broker registers, as bytes: "General", "Status", "Random"
General == <<71, 101, 110, 101, 114, 97, 108>>
Status == <<83, 116, 97, 116, 117, 115>>
Random == <<82, 97, 110, 100, 111, 109>>
\* a topic name outside that list: "t"
OtherTopic == <<116>>

\* the remaining-length loop every encoder repeats
RECURSIVE EncodeLength(_)
EncodeLength(length) ==
    IF length \div 128 > 0
    THEN <<(length % 128) + 128>> \o EncodeLength(length \div 128)
    ELSE <<length % 128>>

\* read_remaining_length of subscribe.rs / suback.rs / puback.rs: the value
\* and the position after the length bytes, or a failure at the end of data
RECURSIVE ReadRemainingLength(_, _, _, _)
ReadRemainingLength(data, pos, value, multiplier) ==
    IF ~CanRead(data, pos, 1) THEN Fail
    ELSE LET byte == data[pos + 1]
             v == value + (byte % 128) * multiplier
         IN IF byte < 128 THEN [ok |-> TRUE, value |-> v, next |-> pos + 1]
            ELSE ReadRemainingLength(data, pos + 1, v, multiplier * 128)

\* a 16-bit length followed by that many bytes, decoded as a string
ReadString(data, pos) ==
    IF ~CanRead(data, pos, 2) THEN Fail
    ELSE LET n == U16(data[pos + 1], data[pos + 2])
         IN IF ~CanRead(data, pos + 2, n) THEN Fail
            ELSE IF ~Utf8Ok(Slice(data, pos + 2, n)) THEN Fail
            ELSE [ok |-> TRUE, val |-> Slice(data, pos + 2, n), next |-> pos + 2 + n]

(***************************************************************************)
(* CONNECT (connect.rs).  decode starts at position 2 whatever the first   *)
(* two bytes are, and reads the optional fields the flag byte announces.   *)
(***************************************************************************)
ConnectOptional(data, pos, present) ==
    IF ~present THEN [ok |-> TRUE, next |-> pos]
    ELSE LET s == ReadString(data, pos)
         IN IF s.ok THEN [ok |-> TRUE, next |-> s.next] ELSE Fail

ConnectDecodeOk(data) ==
    LET name == ReadString(data, 2)
    IN  /\ name.ok
        /\ CanRead(data, name.next, 4)
        /\ LET flags == data[name.next + 2]
               cid == ReadString(data, name.next + 4)
           IN /\ cid.ok
              /\ LET wt == ConnectOptional(data, cid.next, (flags \div 4) % 2 = 1)
                 IN /\ wt.ok
                    /\ LET wm == ConnectOptional(data, wt.next, (flags \div 4) % 2 = 1)
                       IN /\ wm.ok
                          /\ LET un == ConnectOptional(data, wm.next, flags \div 128 = 1)
                             IN /\ un.ok
                                /\ ConnectOptional(data, un.next, (flags \div 64) % 2 = 1).ok

\* an Option<String>: None, or Some(s)
None == [some |-> FALSE]
Some(s) == [some |-> TRUE, val |-> s]

\* a 16-bit length and the bytes of a string, as encode pushes them
\* a string written with a length of one byte
PushStringOneByte(s) == <<Lo(Len(s))>> \o s

PushString(s) == <<Hi(Len(s)), Lo(Len(s))>> \o s

\* encode: the remaining length is summed in 16-bit arithmetic from the
\* fields that are Some; the will message is written when the will topic is
ConnectEncode(p) ==
    LET remaining ==
            (2 + Len(p.protocol_name) + 1 + 1 + 2 + 2 + Len(p.client_id)
               + (IF p.will_topic.some
                  THEN 2 + Len(p.will_topic.val) + 2 + Len(p.will_message.val) ELSE 0)
               + (IF p.username.some THEN 2 + Len(p.username.val) ELSE 0)
               + (IF p.password.some THEN 2 + Len(p.password.val) ELSE 0)) % 65536
    IN  <<16>> \o EncodeLength(remaining)
            \o PushString(p.protocol_name)
            \o <<p.protocol_level, p.connect_flags>>
            \o <<Hi(p.keep_alive), Lo(p.keep_alive)>>
            \o PushString(p.client_id)
            \o (IF p.will_topic.some
                THEN PushString(p.will_topic.val) \o PushString(p.will_message.val)
                ELSE <<>>)
            \o (IF p.username.some THEN PushString(p.username.val) ELSE <<>>)
            \o (IF p.password.some THEN PushString(p.password.val) ELSE <<>>)

\* an optional string of decode: read when its flag bit is set
ConnectOption(data, pos, present) ==
    IF ~present THEN [ok |-> TRUE, opt |-> None, next |-> pos]
    ELSE LET s == ReadString(data, pos)
         IN IF s.ok THEN [ok |-> TRUE, opt |-> Some(s.val), next |-> s.next] ELSE Fail

\* decode: the cursor is set to position 2 and the fields are read in turn
ConnectDecode(data) ==
    LET name == ReadString(data, 2)
    IN  IF ~name.ok THEN Fail
        ELSE IF ~CanRead(data, name.next, 4) THEN Fail
        ELSE LET flags == data[name.next + 2]
                 cid == ReadString(data, name.next + 4)
             IN IF ~cid.ok THEN Fail
                ELSE LET wt == ConnectOption(data, cid.next, (flags \div 4) % 2 = 1)
                     IN IF ~wt.ok THEN Fail
                        ELSE LET wm == ConnectOption(data, wt.next, (flags \div 4) % 2 = 1)
                             IN IF ~wm.ok THEN Fail
                                ELSE LET un == ConnectOption(data, wm.next, flags \div 128 = 1)
                                     IN IF ~un.ok THEN Fail
                                        ELSE LET pw == ConnectOption(data, un.next, (flags \div 64) % 2 = 1)
                                             IN IF ~pw.ok THEN Fail
                                                ELSE [ok |-> TRUE,
                                                      protocol_name |-> name.val,
                                                      protocol_level |-> data[name.next + 1],
                                                      connect_flags |-> flags,
                                                      keep_alive |-> U16(data[name.next + 3], data[name.next + 4]),
                                                      client_id |-> cid.val,
                                                      will_topic |-> wt.opt,
                                                      will_message |-> wm.opt,
                                                      username |-> un.opt,
                                                      password |-> pw.opt]

(***************************************************************************)
(* CONNACK (connack.rs), without properties as the broker builds it.       *)
(***************************************************************************)
ConnAckEncode(session_present, reason_code) ==
    <<32, 3, IF session_present THEN 1 ELSE 0, reason_code, 0>>

\* the bytes ConnAckReasonCode::from_byte accepts
ConnAckReasonCodes ==
    {0, 128, 129, 130, 131, 132, 133, 134, 135, 136, 137, 138, 140, 144, 149,
     151, 153, 154, 155, 156, 157, 159}

\* the discriminants of enum ConnAckReasonCode
ConnAckReasonCode ==
    [Success |-> 0, UnspecifiedError |-> 128, MalformedPacket |-> 129,
     ProtocolError |-> 130, ImplementationSpecificError |-> 131,
     UnsupportedProtocolVersion |-> 132, ClientIdentifierNotValid |-> 133,
     BadUserNameOrPassword |-> 134, NotAuthorized |-> 135,
     ServerUnavailable |-> 136, ServerBusy |-> 137, Banned |-> 138,
     BadAuthenticationMethod |-> 140, TopicNameInvalid |-> 144,
     PacketTooLarge |-> 149, QuotaExceeded |-> 151,
     PayloadFormatInvalid |-> 153, RetainNotSupported |-> 154,
     QosNotSupported |-> 155, UseAnotherServer |-> 156, ServerMoved |-> 157,
     ConnectionRateExceeded |-> 159]

\* to_byte: the discriminant of the variant
ConnAckToByte(code) == ConnAckReasonCode[code]

\* a from_byte that takes 0x8B for Banned
ConnAckFromByteLoose(byte) ==
    IF byte \in {138, 139} THEN [ok |-> TRUE, code |-> "Banned"]
    ELSE IF byte \in {ConnAckReasonCode[c] : c \in DOMAIN ConnAckReasonCode}
    THEN [ok |-> TRUE, code |-> CHOOSE c \in DOMAIN ConnAckReasonCode : ConnAckReasonCode[c] = byte]
    ELSE Fail

\* from_byte: the match on the byte
ConnAckFromByte(byte) ==
    CASE byte = 0 -> [ok |-> TRUE, code |-> "Success"]
      [] byte = 128 -> [ok |-> TRUE, code |-> "UnspecifiedError"]
      [] byte = 129 -> [ok |-> TRUE, code |-> "MalformedPacket"]
      [] byte = 130 -> [ok |-> TRUE, code |-> "ProtocolError"]
      [] byte = 131 -> [ok |-> TRUE, code |-> "ImplementationSpecificError"]
      [] byte = 132 -> [ok |-> TRUE, code |-> "UnsupportedProtocolVersion"]
      [] byte = 133 -> [ok |-> TRUE, code |-> "ClientIdentifierNotValid"]
      [] byte = 134 -> [ok |-> TRUE, code |-> "BadUserNameOrPassword"]
      [] byte = 135 -> [ok |-> TRUE, code |-> "NotAuthorized"]
      [] byte = 136 -> [ok |-> TRUE, code |-> "ServerUnavailable"]
      [] byte = 137 -> [ok |-> TRUE, code |-> "ServerBusy"]
      [] byte = 138 -> [ok |-> TRUE, code |-> "Banned"]
      [] byte = 140 -> [ok |-> TRUE, code |-> "BadAuthenticationMethod"]
      [] byte = 144 -> [ok |-> TRUE, code |-> "TopicNameInvalid"]
      [] byte = 149 -> [ok |-> TRUE, code |-> "PacketTooLarge"]
      [] byte = 151 -> [ok |-> TRUE, code |-> "QuotaExceeded"]
      [] byte = 153 -> [ok |-> TRUE, code |-> "PayloadFormatInvalid"]
      [] byte = 154 -> [ok |-> TRUE, code |-> "RetainNotSupported"]
      [] byte = 155 -> [ok |-> TRUE, code |-> "QosNotSupported"]
      [] byte = 156 -> [ok |-> TRUE, code |-> "UseAnotherServer"]
      [] byte = 157 -> [ok |-> TRUE, code |-> "ServerMoved"]
      [] byte = 159 -> [ok |-> TRUE, code |-> "ConnectionRateExceeded"]
      [] OTHER -> Fail

\* write_u32::<BigEndian>
U32Bytes(n) ==
    <<(n \div 16777216) % 256, (n \div 65536) % 256, (n \div 256) % 256, n % 256>>

\* the properties encode writes, each when it is Some; the length of the
\* assigned client identifier is cast to one byte
ConnAckPropertyBytes(properties) ==
    IF ~properties.some THEN <<>>
    ELSE LET props == properties.val
         IN (IF props.session_expiry_interval.some
             THEN <<17>> \o U32Bytes(props.session_expiry_interval.val) ELSE <<>>)
            \o (IF props.receive_maximum.some
                THEN <<33, Hi(props.receive_maximum.val), Lo(props.receive_maximum.val)>>
                ELSE <<>>)
            \o (IF props.maximum_packet_size.some
                THEN <<39>> \o U32Bytes(props.maximum_packet_size.val) ELSE <<>>)
            \o (IF props.assigned_client_identifier.some
                THEN <<18, Len(props.assigned_client_identifier.val) % 256>>
                        \o props.assigned_client_identifier.val
                ELSE <<>>)

\* encode of a ConnAckPacket with its properties: the length of the
\* properties and the remaining length are each cast to one byte
ConnAckPacketEncode(p) ==
    LET properties == ConnAckPropertyBytes(p.properties)
        variable_header == <<IF p.session_present THEN 1 ELSE 0, p.reason_code,
                             Len(properties) % 256>> \o properties
    IN  <<32, Len(variable_header) % 256>> \o variable_header

\* the properties decode returns when the properties length is not 0
ConnAckNoProperties ==
    [session_expiry_interval |-> None, receive_maximum |-> None,
     maximum_packet_size |-> None, assigned_client_identifier |-> None]

\* decode: from position 2, the flag, the reason code and the properties
\* length; the properties are read and not interpreted
ConnAckDecode(data) ==
    IF ~CanRead(data, 2, 1) THEN Fail
    ELSE IF data[3] \notin {0, 1} THEN Fail
    ELSE IF ~CanRead(data, 3, 1) THEN Fail
    ELSE IF data[4] \notin ConnAckReasonCodes THEN Fail
    ELSE IF ~CanRead(data, 4, 1) THEN Fail
    ELSE IF data[5] > 0 /\ ~CanRead(data, 5, data[5]) THEN Fail
    ELSE [ok |-> TRUE,
          session_present |-> data[3] = 1,
          reason_code |-> data[4],
          properties |-> IF data[5] > 0 THEN Some(ConnAckNoProperties) ELSE None]

(***************************************************************************)
(* PUBLISH (publish.rs).                                                   *)
(***************************************************************************)
\* encode: message_id is written whatever qos is; the remaining length counts
\* it only when qos > 0, in 16-bit arithmetic
PublishEncode(p) ==
    LET first == 48 + (p.qos % 4) * 2 + (IF p.retain THEN 1 ELSE 0)
                    + (IF p.dup THEN 8 ELSE 0)
        remaining == (2 + Len(p.topic_name) + Len(p.payload)
                        + (IF p.qos > 0 THEN 2 ELSE 0)) % 65536
    IN  <<first>> \o EncodeLength(remaining)
            \o <<Hi(Len(p.topic_name)), Lo(Len(p.topic_name))>> \o p.topic_name
            \o <<Hi(p.message_id), Lo(p.message_id)>>
            \o p.payload

\* the length loop of decode: only the position after it is used
RECURSIVE PublishSkipLength(_, _)
PublishSkipLength(data, pos) ==
    IF ~CanRead(data, pos, 1) THEN Fail
    ELSE IF data[pos + 1] < 128 THEN [ok |-> TRUE, next |-> pos + 1]
    ELSE PublishSkipLength(data, pos + 1)

\* decode: the payload is everything up to the end of the bytes read
PublishDecode(data) ==
    IF ~CanRead(data, 0, 1) THEN Fail
    ELSE LET first == data[1]
             len == PublishSkipLength(data, 1)
         IN IF ~len.ok THEN Fail
            ELSE LET topic == ReadString(data, len.next)
                     qos == (first \div 2) % 4
                 IN IF ~topic.ok THEN Fail
                    ELSE IF qos > 0 /\ ~CanRead(data, topic.next, 2) THEN Fail
                    ELSE LET body == IF qos > 0 THEN topic.next + 2 ELSE topic.next
                         IN [ok |-> TRUE,
                             topic_name |-> topic.val,
                             message_id |-> IF qos > 0
                                            THEN U16(data[topic.next + 1], data[topic.next + 2])
                                            ELSE 0,
                             qos |-> qos,
                             retain |-> first % 2 = 1,
                             dup |-> (first \div 8) % 2 = 1,
                             payload |-> Slice(data, body, Len(data) - body)]

(***************************************************************************)
(* PUBACK (puback.rs).                                                     *)
(***************************************************************************)
PubAckEncode(packet_id) == <<64>> \o EncodeLength(2) \o <<Hi(packet_id), Lo(packet_id)>>

\* the two ways the build treats an integer overflow: with overflow checks
\* the thread panics, without them the value wraps
Builds == {"checked", "wrapping"}
Panic == [ok |-> FALSE, panic |-> TRUE]

\* read_remaining_length of puback.rs in usize (64 bits) arithmetic.  The
\* groups of 7 bits never overlap, so value is kept as its low 28 bits (low)
\* and whether any of its bits 28..63 is set (high); k counts the length
\* bytes read, the multiplier is 128^k.  The 10th byte is multiplied by 2^63
\* and overflows when it is above 1; multiplier *= 128 overflows after the
\* 10th byte and leaves 0 when it wraps.
RECURSIVE PubAckReadRemainingLength(_, _, _, _, _, _)
PubAckReadRemainingLength(data, pos, k, low, high, build) ==
    IF ~CanRead(data, pos, 1) THEN Fail
    ELSE LET byte == data[pos + 1]
             group == byte % 128
         IN IF k = 9 /\ group > 1 /\ build = "checked" THEN Panic
            ELSE LET l == IF k <= 3 THEN low + group * (128 ^ k) ELSE low
                     h == \/ high
                          \/ k \in 4..8 /\ group # 0
                          \/ k = 9 /\ group % 2 = 1
                 IN IF byte < 128 THEN [ok |-> TRUE, low |-> l, high |-> h, next |-> pos + 1]
                    ELSE IF k >= 9 /\ build = "checked" THEN Panic
                    ELSE PubAckReadRemainingLength(data, pos + 1,
                            IF k >= 9 THEN 10 ELSE k + 1, l, h, build)

\* the length loop of PublishPacket::decode in u16 arithmetic: the multiplier
\* is 128^k for k <= 2; the third byte overflows the product when its group
\* is above 3, and multiplier *= 128, which comes before the test of the
\* continuation bit, overflows after the third byte and leaves 0 when it wraps
RECURSIVE PublishReadLength(_, _, _, _, _)
PublishReadLength(data, pos, k, value, build) ==
    IF ~CanRead(data, pos, 1) THEN Fail
    ELSE LET byte == data[pos + 1]
             group == byte % 128
         IN IF k = 2 /\ build = "checked" THEN Panic
            ELSE LET v == IF k <= 1 THEN value + group * (128 ^ k)
                          ELSE IF k = 2 THEN value + (group % 4) * 16384
                          ELSE value
                 IN IF byte < 128 THEN [ok |-> TRUE, value |-> v, next |-> pos + 1]
                    ELSE PublishReadLength(data, pos + 1,
                            IF k >= 2 THEN 3 ELSE k + 1, v, build)

\* decode: the packet identifier of a frame 0x40, remaining length 2, two
\* bytes; an error otherwise
PubAckDecode(data, build) ==
    IF ~CanRead(data, 0, 1) THEN Fail
    ELSE IF data[1] # 64 THEN Fail
    ELSE LET len == PubAckReadRemainingLength(data, 1, 0, 0, FALSE, build)
         IN IF ~len.ok THEN len
            ELSE IF len.low # 2 \/ len.high THEN Fail
            ELSE IF ~CanRead(data, len.next, 2) THEN Fail
            ELSE [ok |-> TRUE, packet_id |-> U16(data[len.next + 1], data[len.next + 2])]

(***************************************************************************)
(* SUBSCRIBE (subscribe.rs).                                               *)
(***************************************************************************)
RECURSIVE SubscribeFilters(_, _)
SubscribeFilters(topic_filters, qos_values) ==
    IF topic_filters = <<>> THEN <<>>
    ELSE <<Hi(Len(Head(topic_filters))), Lo(Len(Head(topic_filters)))>>
            \o Head(topic_filters) \o <<Head(qos_values)>>
            \o SubscribeFilters(Tail(topic_filters), Tail(qos_values))

RECURSIVE SumLen(_)
SumLen(topic_filters) ==
    IF topic_filters = <<>> THEN 0
    ELSE 2 + Len(Head(topic_filters)) + 1 + SumLen(Tail(topic_filters))

\* an encoder that writes the packet identifier as one byte
SubscribeEncodeIdLow(p) ==
    <<130>> \o EncodeLength(2 + SumLen(p.topic_filters))
        \o <<0, Lo(p.packet_id)>>
        \o SubscribeFilters(p.topic_filters, p.qos_values)

SubscribeEncode(p) ==
    <<130>> \o EncodeLength(2 + SumLen(p.topic_filters))
        \o <<Hi(p.packet_id), Lo(p.packet_id)>>
        \o SubscribeFilters(p.topic_filters, p.qos_values)

\* the while loop of decode: bytes_read starts at 2 + 2
RECURSIVE SubscribeLoop(_, _, _, _, _, _)
SubscribeLoop(data, pos, bytes_read, remaining_length, topic_filters, qos_values) ==
    IF ~(bytes_read < remaining_length)
    THEN [ok |-> TRUE, topic_filters |-> topic_filters, qos_values |-> qos_values]
    ELSE IF ~CanRead(data, pos, 2) THEN Fail
    ELSE LET topic_len == U16(data[pos + 1], data[pos + 2])
         IN IF topic_len = 0 THEN Fail
            ELSE IF ~CanRead(data, pos + 2, topic_len) THEN Fail
            ELSE IF ~Utf8Ok(Slice(data, pos + 2, topic_len)) THEN Fail
            ELSE IF ~CanRead(data, pos + 2 + topic_len, 1) THEN Fail
            ELSE SubscribeLoop(data, pos + 2 + topic_len + 1,
                               bytes_read + 2 + topic_len + 1, remaining_length,
                               Append(topic_filters, Slice(data, pos + 2, topic_len)),
                               Append(qos_values, data[pos + 2 + topic_len + 1]))

SubscribeDecode(data) ==
    IF ~CanRead(data, 0, 1) THEN Fail
    ELSE IF data[1] # 130 THEN Fail
    ELSE LET len == ReadRemainingLength(data, 1, 0, 1)
         IN IF ~len.ok THEN Fail
            ELSE IF ~CanRead(data, len.next, 2) THEN Fail
            ELSE LET r == SubscribeLoop(data, len.next + 2, 2 + 2, len.value, <<>>, <<>>)
                 IN IF ~r.ok THEN Fail
                    ELSE [ok |-> TRUE,
                          packet_id |-> U16(data[len.next + 1], data[len.next + 2]),
                          topic_filters |-> r.topic_filters,
                          qos_values |-> r.qos_values]

(***************************************************************************)
(* SUBACK (suback.rs) and PINGREQ / PINGRESP (ping.rs).                    *)
(***************************************************************************)
SubAckEncode(packet_id, return_codes) ==
    <<144>> \o EncodeLength(2 + Len(return_codes))
        \o <<Hi(packet_id), Lo(packet_id)>> \o return_codes

\* decode: the packet identifier, then return codes while bytes_read is below
\* the remaining length
SubAckDecode(data) ==
    IF ~CanRead(data, 0, 1) THEN Fail
    ELSE IF data[1] # 144 THEN Fail
    ELSE LET len == ReadRemainingLength(data, 1, 0, 1)
         IN IF ~len.ok THEN Fail
            ELSE IF ~CanRead(data, len.next, 2) THEN Fail
            ELSE LET n == IF len.value > 2 THEN len.value - 2 ELSE 0
                 IN IF ~CanRead(data, len.next + 2, n) THEN Fail
                    ELSE [ok |-> TRUE,
                          packet_id |-> U16(data[len.next + 1], data[len.next + 2]),
                          return_codes |-> Slice(data, len.next + 2, n)]

PingReqEncode == <<192, 0>>
PingRespEncode == <<208, 0>>

(***************************************************************************)
(* DISCONNECT (disconnect.rs).  A packet holds a reason code and a map     *)
(* from property identifier to bytes; properties is a sequence of          *)
(* <<identifier, value>> in the order the map is iterated.                 *)
(***************************************************************************)
DisconnectReasonOk(value) == value \in {0, 4, 139, 141}

RECURSIVE DisconnectPropertyBytes(_)
DisconnectPropertyBytes(properties) ==
    IF properties = <<>> THEN <<>>
    ELSE <<Head(properties)[1]>> \o Head(properties)[2]
            \o DisconnectPropertyBytes(Tail(properties))

\* encode: the identifier and the raw value of each property, no length byte
DisconnectEncode(reason_code, properties) ==
    <<224, (1 + Len(DisconnectPropertyBytes(properties))) % 256, reason_code>>
        \o DisconnectPropertyBytes(properties)

\* the property loop of decode: identifier, a length byte, that many bytes,
\* up to the end of the bytes read
RECURSIVE DisconnectProperties(_, _)
DisconnectProperties(packet, index) ==
    IF ~(index < Len(packet)) THEN TRUE
    ELSE IF index + 1 >= Len(packet) THEN FALSE
    ELSE LET property_length == packet[index + 2]
         IN IF index + 2 + property_length > Len(packet) THEN FALSE
            ELSE DisconnectProperties(packet, index + 2 + property_length)

DisconnectDecodeOk(packet) ==
    /\ Len(packet) >= 3
    /\ Len(packet) >= packet[2] + 2
    /\ DisconnectReasonOk(packet[3])
    /\ DisconnectProperties(packet, 3)

\* the discriminants of enum DisconnectReasonCode
DisconnectReasonCode ==
    [NormalDisconnection |-> 0, DisconnectWithWillMessage |-> 4,
     ServerShuttingDown |-> 139, KeepAliveTimeout |-> 141]

\* from_u8: the match on the value
DisconnectFromU8(value) ==
    CASE value = 0 -> Some("NormalDisconnection")
      [] value = 4 -> Some("DisconnectWithWillMessage")
      [] value = 139 -> Some("ServerShuttingDown")
      [] value = 141 -> Some("KeepAliveTimeout")
      [] OTHER -> None

\* HashMap::insert: the value of an identifier already present is replaced
DisconnectInsert(properties, property_identifier, property_value) ==
    [k \in DOMAIN properties \cup {property_identifier} |->
        IF k = property_identifier THEN property_value ELSE properties[k]]

\* the map a sequence of (identifier, value) pairs fills, inserted in order
RECURSIVE DisconnectMap(_)
DisconnectMap(pairs) ==
    IF pairs = <<>> THEN <<>>
    ELSE DisconnectInsert(DisconnectMap(SubSeq(pairs, 1, Len(pairs) - 1)),
                          pairs[Len(pairs)][1], pairs[Len(pairs)][2])

\* the property loop of decode with the map it builds
RECURSIVE DisconnectPropertyLoop(_, _, _)
DisconnectPropertyLoop(packet, index, properties) ==
    IF ~(index < Len(packet)) THEN [ok |-> TRUE, properties |-> properties]
    ELSE IF index + 1 >= Len(packet) THEN Fail
    ELSE LET property_identifier == packet[index + 1]
             property_length == packet[index + 2]
         IN IF index + 2 + property_length > Len(packet) THEN Fail
            ELSE DisconnectPropertyLoop(packet, index + 2 + property_length,
                    DisconnectInsert(properties, property_identifier,
                                     Slice(packet, index + 2, property_length)))

\* decode: the reason code and the map of the properties, or an error
DisconnectDecode(packet) ==
    IF Len(packet) < 3 THEN Fail
    ELSE IF Len(packet) < packet[2] + 2 THEN Fail
    ELSE IF ~DisconnectReasonOk(packet[3]) THEN Fail
    ELSE LET loop == DisconnectPropertyLoop(packet, 3, <<>>)
         IN IF ~loop.ok THEN Fail
            ELSE [ok |-> TRUE, reason_code |-> packet[3], properties |-> loop.properties]

(***************************************************************************)
(* The broker (src/bin/server.rs).                                         *)
(*                                                                         *)
(* pc[c]      where the worker thread of connection c is:                  *)
(*            "unborn" (not accepted yet), "connect" (before the initial   *)
(*            read), "loop" (before the read of the loop), "pub_lock"      *)
(*            (PUBACK written, before topic_subscriptions.lock()),         *)
(*            "fanout" (holding the guard, inside the subscriber loop),    *)
(*            "sub_lock" (SUBACK written, before the lock), "done"         *)
(*            (handle_client returned), "panicked" (the thread unwound)    *)
(* peer[c]    the client's end of the socket: "open", "fin" (the client    *)
(*            closed: reads reach EOF), "rst" (the connection was reset:   *)
(*            read, write and peer_addr return Err)                        *)
(* out[c]     the writes made on socket c, in order: who wrote (the        *)
(*            worker thread), the bytes, and whether write returned Ok     *)
(* registry   topic_subscriptions: topic name -> Vec of stream clones; a   *)
(*            clone of connection c's stream is the number c               *)
(* clients    the Vec of accepted streams                                  *)
(* guard      the thread holding the topic_subscriptions mutex, 0 if none  *)
(* poisoned   a thread panicked while holding that mutex                   *)
(* late[c]    last_ping_time.elapsed() > 60 s holds in connection c's      *)
(*            worker; FALSE once the worker is over                        *)
(* pkt[c]     the packet the worker decoded and is processing              *)
(* idx[c]     the position of the subscriber loop in the Vec               *)
(* hello[c]   what the initial read gave: "none" yet, "connect" (decoded   *)
(*            as CONNECT), "other"                                         *)
(* packet_type[c]  buffer[0] >> 4 of the last read of connection c's loop,  *)
(*            0 before the first                                           *)
(* owed[c]    topic and message id of every QoS 1 PUBLISH frame the reads  *)
(*            of connection c's loop returned, in order                    *)
(* asked[c]   the topic filters of the SUBSCRIBE packets whose arm ran to  *)
(*            its end                                                      *)
(* nsent      frames the reads of the loops have returned so far           *)
(*                                                                         *)
(* The receive buffer of a socket is no variable: the worker is its only   *)
(* reader, so the bytes a read returns are chosen when the read is made    *)
(* (one frame, or two frames that arrived together).                       *)
(***************************************************************************)
VARIABLES pc, peer, out, registry, clients, guard, poisoned, late,
          pkt, idx, hello, packet_type, asked, owed, nsent

vars == <<pc, peer, out, registry, clients, guard, poisoned, late,
          pkt, idx, hello, packet_type, asked, owed, nsent>>

NoPacket == [kind |-> "none"]

\* the property the broker and the client add to every DISCONNECT they send
ShippedProperty == <<17, <<1, 2>>>>
NormalDisconnection == 0
KeepAliveTimeout == 141

\* ---- the clients' side ----

\* CONNECT("MQTT", 5, flags 0x02, keep alive 60, client id "c")
ConnectFrame == <<16, 13, 0, 4, 77, 81, 84, 84, 5, 2, 0, 60, 0, 1, 99>>

\* the frames a client may send
Menu ==
    { ConnectFrame,
      PublishEncode([topic_name |-> General, message_id |-> 1, qos |-> 1,
                     retain |-> FALSE, dup |-> FALSE, payload |-> <<104>>]),
      PublishEncode([topic_name |-> Status, message_id |-> 0, qos |-> 0,
                     retain |-> FALSE, dup |-> FALSE, payload |-> <<105>>]),
      SubscribeEncode([packet_id |-> 1, topic_filters |-> <<General>>,
                       qos_values |-> <<1>>]),
      SubscribeEncode([packet_id |-> 2, topic_filters |-> <<Status, OtherTopic>>,
                       qos_values |-> <<2, 3>>]),
      PingReqEncode,
      DisconnectEncode(NormalDisconnection, <<ShippedProperty>>),
      DisconnectEncode(NormalDisconnection, << <<17, <<5>>>> >>) }

\* a PUBLISH that arrives on the heels of another frame
Follower ==
    PublishEncode([topic_name |-> General, message_id |-> 2, qos |-> 1,
                   retain |-> FALSE, dup |-> FALSE, payload |-> <<104>>])

\* the frames behind which the follower may arrive in time for one read to
\* return both
Heads == { f \in Menu : f[1] \div 16 \in {3, 12} \/ DisconnectDecodeOk(f) }

\* the bytes one read may return: a frame, alone or with the follower
Reads == 
    { [bytes |-> f, frames |-> <<f>>] : f \in Menu }
        \cup { [bytes |-> f \o Follower, frames |-> <<f, Follower>>] : f \in Heads }

\* the client closes its socket: the broker's next read reaches EOF.  Only
\* a read observes it, so it is taken while the worker is before a read
PeerClose(c) ==
    /\ pc[c] \in {"connect", "loop"}
    /\ peer[c] = "open"
    /\ peer' = [peer EXCEPT ![c] = "fin"]
    /\ UNCHANGED <<pc, out, registry, clients, guard, poisoned, late,
                   pkt, idx, hello, packet_type, asked, owed, nsent>>

\* the connection is reset: the client aborts, or answers a write made after
\* it closed with RST.  The broker can observe it while the worker runs or
\* a clone of the stream is in the registry
PeerReset(c) ==
    /\ \/ pc[c] \in {"connect", "loop", "pub_lock", "fanout", "sub_lock"}
       \/ \E t \in DOMAIN registry : \E i \in 1..Len(registry[t]) : registry[t][i] = c
    /\ peer[c] # "rst"
    /\ peer' = [peer EXCEPT ![c] = "rst"]
    /\ UNCHANGED <<pc, out, registry, clients, guard, poisoned, late,
                   pkt, idx, hello, packet_type, asked, owed, nsent>>

\* the client stops reading and the socket's send buffer fills: writes to
\* the connection block from now on
PeerStall(c) ==
    /\ pc[c] \in {"loop", "pub_lock", "sub_lock"}
    /\ peer[c] = "open"
    /\ peer' = [peer EXCEPT ![c] = "stalled"]
    /\ UNCHANGED <<pc, out, registry, clients, guard, poisoned, late,
                   pkt, idx, hello, packet_type, asked, owed, nsent>>

\* the client reads again: the socket accepts writes
PeerDrain(c) ==
    /\ peer[c] = "stalled"
    /\ peer' = [peer EXCEPT ![c] = "open"]
    /\ UNCHANGED <<pc, out, registry, clients, guard, poisoned, late,
                   pkt, idx, hello, packet_type, asked, owed, nsent>>

\* more than 60 seconds have passed since last_ping_time was set, while the
\* worker waits in the read of the loop
Tick(c) ==
    /\ pc[c] = "loop"
    /\ ~late[c]
    /\ late' = [late EXCEPT ![c] = TRUE]
    /\ UNCHANGED <<pc, peer, out, registry, clients, guard, poisoned,
                   pkt, idx, hello, packet_type, asked, owed, nsent>>

\* ---- the broker's side ----

\* a write that overtakes what was written to the socket before it
WriteToFront(o, by, to, bytes) ==
    [o EXCEPT ![to] = <<[by |-> by, bytes |-> bytes]>> \o @]

\* stream.write(bytes) on socket `to` by the thread `by`, appended to what
\* was written so far (o)
WriteTo(o, by, to, bytes) ==
    [o EXCEPT ![to] = Append(@, [by |-> by, bytes |-> bytes])]

RECURSIVE WriteAll(_, _, _, _)
WriteAll(o, by, to, frames) ==
    IF frames = <<>> THEN o
    ELSE WriteAll(WriteTo(o, by, to, Head(frames)), by, to, Tail(frames))

\* TcpStream::peer_addr: Err on a connection that was reset
PeerAddrOk(h) == peer[h] # "rst"
\* the address itself: one per connection
PeerAddr(h) == h

\* start_server: accept, push a clone on clients, spawn the worker
Accept(c) ==
    /\ pc[c] = "unborn"
    /\ \A b \in Conn : b < c => pc[b] # "unborn"
    /\ pc' = [pc EXCEPT ![c] = "connect"]
    /\ clients' = Append(clients, c)
    /\ UNCHANGED <<peer, out, registry, guard, poisoned, late,
                   pkt, idx, hello, packet_type, asked, owed, nsent>>

\* a reply that claims a stored session
HelloReplySessionPresent(buffer) ==
    IF ConnectDecodeOk(buffer) THEN <<ConnAckEncode(TRUE, 0)>> ELSE <<>>

\* what the worker writes after the initial read returned buffer
HelloReply(buffer) ==
    IF ConnectDecodeOk(buffer) THEN <<ConnAckEncode(FALSE, 0)>> ELSE <<>>

\* the initial read returns bytes: CONNACK if they decode as CONNECT; the
\* loop is entered either way
FirstRead(c, read) ==
    /\ pc[c] = "connect"
    /\ peer[c] = "open"
    /\ LET buffer == read.bytes
       IN /\ out' = WriteAll(out, c, c, HelloReply(buffer))
          /\ hello' = [hello EXCEPT ![c] = IF ConnectDecodeOk(buffer)
                                           THEN "connect" ELSE "other"]
    /\ pc' = [pc EXCEPT ![c] = "loop"]
    /\ late' = [late EXCEPT ![c] = FALSE]
    /\ UNCHANGED <<peer, registry, clients, guard, poisoned,
                   pkt, idx, packet_type, asked, owed, nsent>>

\* the initial read returns Ok(0) or Err: logged, and the loop is entered
FirstReadNothing(c) ==
    /\ pc[c] = "connect"
    /\ peer[c] # "open"
    /\ hello' = [hello EXCEPT ![c] = "other"]
    /\ pc' = [pc EXCEPT ![c] = "loop"]
    /\ late' = [late EXCEPT ![c] = FALSE]
    /\ UNCHANGED <<peer, out, registry, clients, guard, poisoned,
                   pkt, idx, packet_type, asked, owed, nsent>>

\* lines 225-237: the entry of clients whose peer address is the stream's is
\* removed; a stream whose peer_addr fails compares as 0.0.0.0:0
RECURSIVE RemoveFirst(_, _)
RemoveFirst(list, c) ==
    IF list = <<>> THEN <<>>
    ELSE IF PeerAddrOk(Head(list)) /\ PeerAddr(Head(list)) = PeerAddr(c) THEN Tail(list)
    ELSE <<Head(list)>> \o RemoveFirst(Tail(list), c)
Forget(c) == IF PeerAddrOk(c) THEN RemoveFirst(clients, c) ELSE clients

KeepAliveFrame == DisconnectEncode(KeepAliveTimeout, <<ShippedProperty>>)

\* an end of iteration at which the keep-alive period counts from this
\* frame: never over
EndIterationRenewed(c, o) ==
    /\ out' = o
    /\ pc' = [pc EXCEPT ![c] = "loop"]
    /\ clients' = clients
    /\ late' = [late EXCEPT ![c] = FALSE]

\* the end of one iteration of the loop (lines 203-208), after the writes o:
\* the keep-alive check, and the exit when it fires
EndIteration(c, o) ==
    /\ out' = IF late[c] THEN WriteTo(o, c, c, KeepAliveFrame) ELSE o
    /\ pc' = [pc EXCEPT ![c] = IF late[c] THEN "done" ELSE "loop"]
    /\ clients' = IF late[c] THEN Forget(c) ELSE clients
    /\ late' = [late EXCEPT ![c] = FALSE]

\* break: the loop is left and the function returns
Break(c, o) ==
    /\ out' = o
    /\ pc' = [pc EXCEPT ![c] = "done"]
    /\ clients' = Forget(c)
    /\ late' = [late EXCEPT ![c] = FALSE]

\* the read of the loop returns Err
ReadError(c) ==
    /\ pc[c] = "loop"
    /\ peer[c] = "rst"
    /\ Break(c, out)
    /\ UNCHANGED <<peer, registry, guard, poisoned,
                   pkt, idx, hello, packet_type, asked, owed, nsent>>

\* a read of Ok(0) that leaves without a word
ReadEofSilent(c) ==
    /\ pc[c] = "loop"
    /\ peer[c] = "fin"
    /\ Break(c, out)
    /\ UNCHANGED <<peer, registry, guard, poisoned,
                   pkt, idx, hello, packet_type, asked, owed, nsent>>

\* the read of the loop returns Ok(0)
ReadEof(c) ==
    /\ pc[c] = "loop"
    /\ peer[c] = "fin"
    /\ Break(c, WriteTo(out, c, c,
                        DisconnectEncode(NormalDisconnection, <<ShippedProperty>>)))
    /\ UNCHANGED <<peer, registry, guard, poisoned,
                   pkt, idx, hello, packet_type, asked, owed, nsent>>

\* what the PUBLISH arm writes to the sender before it locks the registry
PublishAcks(packet) == <<PubAckEncode(packet.message_id)>>

\* return codes that refuse QoS 0
ReturnCodesFromOne(qos_values) ==
    [i \in 1..Len(qos_values) |->
        IF qos_values[i] >= 1 /\ qos_values[i] <= 2 THEN qos_values[i] ELSE 128]

\* the return codes of the SUBSCRIBE arm
ReturnCodes(qos_values) ==
    [i \in 1..Len(qos_values) |-> IF qos_values[i] <= 2 THEN qos_values[i] ELSE 128]

PacketType(buffer) == buffer[1] \div 16

\* topic and message id of the QoS 1 PUBLISH frames among frames
RECURSIVE Owed(_)
Owed(frames) ==
    IF frames = <<>> THEN <<>>
    ELSE LET p == PublishDecode(Head(frames))
         IN (IF PacketType(Head(frames)) = 3 /\ p.ok /\ p.qos = 1
             THEN << <<p.topic_name, p.message_id>> >> ELSE <<>>)
            \o Owed(Tail(frames))

\* the read of the loop returned bytes; the arms up to their first lock of
\* the registry
Dispatch(c, read) ==
    /\ pc[c] = "loop"
    /\ nsent + Len(read.frames) <= MaxFrames
    /\ nsent' = nsent + Len(read.frames)
    /\ LET buffer == read.bytes
           type == PacketType(buffer)
           publish == PublishDecode(buffer)
           subscribe == SubscribeDecode(buffer)
       IN /\ packet_type' = [packet_type EXCEPT ![c] = type]
          /\ owed' = [owed EXCEPT ![c] = @ \o Owed(read.frames)]
          /\ IF type = 3 /\ publish.ok
             THEN /\ out' = WriteAll(out, c, c, PublishAcks(publish))
                  /\ pkt' = [pkt EXCEPT ![c] = [kind |-> "publish", p |-> publish]]
                  /\ pc' = [pc EXCEPT ![c] = "pub_lock"]
                  /\ UNCHANGED <<late, clients>>
             ELSE IF type = 8 /\ subscribe.ok
             THEN /\ out' = WriteTo(out, c, c,
                                    SubAckEncode(subscribe.packet_id,
                                                 ReturnCodes(subscribe.qos_values)))
                  /\ pkt' = [pkt EXCEPT ![c] = [kind |-> "subscribe", p |-> subscribe]]
                  /\ pc' = [pc EXCEPT ![c] = "sub_lock"]
                  /\ UNCHANGED <<late, clients>>
             ELSE IF type = 12
             THEN /\ late' = [late EXCEPT ![c] = FALSE]
                  /\ out' = WriteTo(out, c, c, PingRespEncode)
                  /\ pc' = pc
                  /\ UNCHANGED <<pkt, clients>>
             ELSE IF type = 14 /\ DisconnectDecodeOk(buffer)
             THEN /\ Break(c, out)
                  /\ pkt' = pkt
             ELSE /\ EndIteration(c, out)
                  /\ pkt' = pkt
    /\ UNCHANGED <<registry, guard, poisoned, idx, hello, asked>>

\* the read of the loop returns bytes and the connection stays up while
\* the arm answers
ReadFrame(c, read) ==
    /\ peer[c] = "open"
    /\ Dispatch(c, read)
    /\ UNCHANGED peer

\* the read of the loop returns bytes and the connection is reset before
\* the arm writes its answer: the write fails
ReadFrameThenReset(c, read) ==
    /\ peer[c] = "open"
    /\ Dispatch(c, read)
    /\ peer' = [peer EXCEPT ![c] = "rst"]

\* topic_subscriptions.lock().unwrap() on a poisoned mutex: the thread panics
LockPoisoned(c) ==
    /\ pc[c] \in {"pub_lock", "sub_lock"}
    /\ guard = 0
    /\ poisoned
    /\ pc' = [pc EXCEPT ![c] = "panicked"]
    /\ late' = [late EXCEPT ![c] = FALSE]
    /\ UNCHANGED <<peer, out, registry, clients, guard, poisoned,
                   pkt, idx, hello, packet_type, asked, owed, nsent>>

\* PUBLISH arm: the registry is locked and the topic looked up
PubLock(c) ==
    /\ pc[c] = "pub_lock"
    /\ guard = 0
    /\ ~poisoned
    /\ IF pkt[c].p.topic_name \in DOMAIN registry
       THEN /\ guard' = c
            /\ idx' = [idx EXCEPT ![c] = 1]
            /\ pc' = [pc EXCEPT ![c] = "fanout"]
            /\ UNCHANGED <<out, clients, pkt, late>>
       ELSE /\ EndIteration(c, out)
            /\ pkt' = [pkt EXCEPT ![c] = NoPacket]
            /\ UNCHANGED <<guard, idx>>
    /\ UNCHANGED <<peer, registry, poisoned, hello, packet_type, asked, owed, nsent>>

Subscribers(c) == registry[pkt[c].p.topic_name]

\* line 110: the subscriber is written to unless its peer address is the
\* publisher's
NotSender(h, c) == PeerAddr(h) # PeerAddr(c)

\* subscriber.write on a blocking socket returns only when the socket takes
\* the bytes
Accepts(h) == peer[h] # "stalled"

\* one turn of the subscriber loop
FanoutWrite(c) ==
    /\ pc[c] = "fanout"
    /\ idx[c] <= Len(Subscribers(c))
    /\ LET h == Subscribers(c)[idx[c]]
       IN /\ PeerAddrOk(h) /\ PeerAddrOk(c)
          /\ NotSender(h, c) => Accepts(h)
          /\ out' = IF NotSender(h, c)
                    THEN WriteTo(out, c, h, PublishEncode(pkt[c].p))
                    ELSE out
    /\ idx' = [idx EXCEPT ![c] = @ + 1]
    /\ UNCHANGED <<pc, peer, registry, clients, guard, poisoned, late,
                   pkt, hello, packet_type, asked, owed, nsent>>

\* line 110: peer_addr().unwrap() on a reset connection panics, with the
\* guard held: the mutex is poisoned
FanoutPanic(c) ==
    /\ pc[c] = "fanout"
    /\ idx[c] <= Len(Subscribers(c))
    /\ ~(PeerAddrOk(Subscribers(c)[idx[c]]) /\ PeerAddrOk(c))
    /\ pc' = [pc EXCEPT ![c] = "panicked"]
    /\ guard' = 0
    /\ poisoned' = TRUE
    /\ late' = [late EXCEPT ![c] = FALSE]
    /\ UNCHANGED <<peer, out, registry, clients,
                   pkt, idx, hello, packet_type, asked, owed, nsent>>

\* the subscriber loop is over: the guard is dropped
FanoutEnd(c) ==
    /\ pc[c] = "fanout"
    /\ idx[c] > Len(Subscribers(c))
    /\ guard' = 0
    /\ idx' = [idx EXCEPT ![c] = 0]
    /\ pkt' = [pkt EXCEPT ![c] = NoPacket]
    /\ EndIteration(c, out)
    /\ UNCHANGED <<peer, registry, poisoned, hello, packet_type, asked, owed, nsent>>

\* a registry that takes every topic
RegistersAny(topic) == topic \in {General, Status, Random, OtherTopic}

\* line 164: the topics the broker registers
Registers(topic) == topic \in {General, Status, Random}

\* entry(topic).or_insert_with(Vec::new).push(clone)
Push(reg, topic, c) ==
    IF topic \in DOMAIN reg
    THEN [reg EXCEPT ![topic] = Append(@, c)]
    ELSE [t \in DOMAIN reg \cup {topic} |-> IF t = topic THEN <<c>> ELSE reg[t]]

RECURSIVE InsertAll(_, _, _)
InsertAll(reg, topic_filters, c) ==
    IF topic_filters = <<>> THEN reg
    ELSE InsertAll(IF Registers(Head(topic_filters))
                   THEN Push(reg, Head(topic_filters), c) ELSE reg,
                   Tail(topic_filters), c)

\* an insertion that does not wait for the guard
SubInsertUnlocked(c) ==
    /\ pc[c] = "sub_lock"
    /\ ~poisoned
    /\ registry' = InsertAll(registry, pkt[c].p.topic_filters, c)
    /\ asked' = [asked EXCEPT ![c] = @ \cup {pkt[c].p.topic_filters[i] :
                                             i \in 1..Len(pkt[c].p.topic_filters)}]
    /\ pkt' = [pkt EXCEPT ![c] = NoPacket]
    /\ EndIteration(c, out)
    /\ UNCHANGED <<peer, guard, poisoned, idx, hello, packet_type, owed, nsent>>

\* SUBSCRIBE arm: the registry is locked and the stream pushed under the
\* topic filters
SubInsert(c) ==
    /\ pc[c] = "sub_lock"
    /\ guard = 0
    /\ ~poisoned
    /\ registry' = InsertAll(registry, pkt[c].p.topic_filters, c)
    /\ asked' = [asked EXCEPT ![c] = @ \cup {pkt[c].p.topic_filters[i] :
                                             i \in 1..Len(pkt[c].p.topic_filters)}]
    /\ pkt' = [pkt EXCEPT ![c] = NoPacket]
    /\ EndIteration(c, out)
    /\ UNCHANGED <<peer, guard, poisoned, idx, hello, packet_type, owed, nsent>>

\* ---- properties ----

\* the handles stored under a topic
Handles(topic) == { registry[topic][i] : i \in 1..Len(registry[topic]) }

\* the positions of out[h] where thread c wrote bytes
Written(h, c, bytes) ==
    { i \in 1..Len(out[h]) : out[h][i].by = c /\ out[h][i].bytes = bytes }

\* the positions of out[h] where thread c wrote a packet of the given type
WrittenType(h, c, type) ==
    { i \in 1..Len(out[h]) : out[h][i].by = c /\ PacketType(out[h][i].bytes) = type }

\* C1: every handle stored in the registry belongs to a connection whose
\* handler has not returned: a handler that ends takes its handle out of
\* every topic set.
C1_RegistryHoldsOnlyRunning ==
    \A topic \in DOMAIN registry : \A h \in Handles(topic) : pc[h] # "done"

\* the routing of the PUBLISH connection c decoded is over: the subscriber
\* loop ran to its end, or the thread died at the lock or inside the loop
Routed(c) ==
    /\ pkt[c].kind = "publish"
    /\ \/ pc[c] = "fanout" /\ idx[c] > Len(Subscribers(c))
       \/ pc[c] = "panicked"

\* C2: once the routing of a decoded PUBLISH on topic T is over, the
\* re-encoded PUBLISH has been written to every handle registered under
\* exactly T other than the publisher's, and to no handle that is
\* registered only under other topics.
C2_RoutedToEverySubscriber ==
    \A c \in Conn : Routed(c) =>
        LET T == pkt[c].p.topic_name
            bytes == PublishEncode(pkt[c].p)
        IN \A h \in Conn \ {c} :
              /\ (T \in DOMAIN registry /\ h \in Handles(T))
                    => Written(h, c, bytes) # {}
              /\ (T \notin DOMAIN registry \/ h \notin Handles(T))
                    => Written(h, c, bytes) = {}

\* C3: after the SUBSCRIBE arm has run, the connection's handle is stored
\* under every topic filter of the request, whatever the string.
C3_RegisteredUnderEveryFilter ==
    \A c \in Conn : \A filter \in asked[c] :
        filter \in DOMAIN registry /\ c \in Handles(filter)


\* C4: every QoS 1 PUBLISH frame a connected client's reads returned has,
\* once the handler is back at its read, exactly one PUBACK with its message
\* id on the sender's socket, and no PUBLISH leaves for a subscriber before
\* the PUBACK of its message id was written to its publisher.
C4_EveryPublishAckedOnceFirst ==
    \A c \in Conn :
        /\ (hello[c] = "connect" /\ pc[c] = "loop") =>
              \A i \in 1..Len(owed[c]) :
                  Cardinality(Written(c, c, PubAckEncode(owed[c][i][2])))
                      = Cardinality({ j \in 1..Len(owed[c]) : owed[c][j][2] = owed[c][i][2] })
        /\ \A h \in Conn : \A i \in WrittenType(h, c, 3) :
              LET m == PublishDecode(out[h][i].bytes)
              IN m.qos = 1 => Written(c, c, PubAckEncode(m.message_id)) # {}

\* C5: a connection whose handle is stored under topic T is never written
\* a PUBLISH by its own handler, and once the handler is back at its read
\* every QoS 1 PUBLISH on T its reads returned has its PUBACK on the socket.
C5_AckedAndNeverEchoed ==
    \A c \in Conn :
        /\ WrittenType(c, c, 3) = {}
        /\ (hello[c] = "connect" /\ pc[c] = "loop") =>
              \A i \in 1..Len(owed[c]) :
                  (owed[c][i][1] \in DOMAIN registry /\ c \in Handles(owed[c][i][1]))
                      => Written(c, c, PubAckEncode(owed[c][i][2])) # {}

\* C6: a handle is stored at most once under each topic.
C6_AtMostOncePerTopic ==
    \A topic \in DOMAIN registry :
        \A i, j \in 1..Len(registry[topic]) :
            registry[topic][i] = registry[topic][j] => i = j

\* C8: a connection whose initial read did not give a well-formed CONNECT
\* is sent no CONNACK, and its handler dispatches no PUBLISH, SUBSCRIBE or
\* PINGREQ.
C8_NoDispatchWithoutConnect ==
    \A c \in Conn :
        hello[c] = "other" =>
            /\ WrittenType(c, c, 2) = {}
            /\ packet_type[c] \notin {3, 8, 12}

\* C9: on a connection whose initial read decoded as CONNECT, the first
\* write is CONNACK(session_present = false, Success) and no other CONNACK
\* is ever written, whatever frames follow.
C9_ConnAckFirstAndOnly ==
    \A c \in Conn :
        hello[c] = "connect" =>
            /\ out[c] # <<>>
            /\ out[c][1] = [by |-> c, bytes |-> ConnAckEncode(FALSE, 0)]
            /\ { i \in 1..Len(out[c]) : PacketType(out[c][i].bytes) = 2 } = {1}

\* a connected client sent a second CONNECT after other traffic
C9_SecondConnectRead ==
    \E c \in Conn :
        hello[c] = "connect" /\ packet_type[c] = 1 /\ Len(out[c]) >= 2

\* C10: after a read of a connected client's loop returned a DISCONNECT
\* frame (packet type 14), the handler has left its loop.
C10_DisconnectEndsHandler ==
    \A c \in Conn :
        (hello[c] = "connect" /\ packet_type[c] = 14) => pc[c] = "done"

Init ==
    /\ pc = [c \in Conn |-> "unborn"]
    /\ peer = [c \in Conn |-> "open"]
    /\ out = [c \in Conn |-> <<>>]
    /\ registry = <<>>
    /\ clients = <<>>
    /\ guard = 0
    /\ poisoned = FALSE
    /\ late = [c \in Conn |-> FALSE]
    /\ pkt = [c \in Conn |-> NoPacket]
    /\ idx = [c \in Conn |-> 0]
    /\ hello = [c \in Conn |-> "none"]
    /\ packet_type = [c \in Conn |-> 0]
    /\ asked = [c \in Conn |-> {}]
    /\ owed = [c \in Conn |-> <<>>]
    /\ nsent = 0

Worker(c) ==
    \/ \E read \in Reads : FirstRead(c, read)
    \/ FirstReadNothing(c)
    \/ ReadError(c)
    \/ ReadEof(c)
    \/ \E read \in Reads : ReadFrame(c, read)
    \/ LockPoisoned(c)
    \/ PubLock(c)
    \/ FanoutWrite(c)
    \/ FanoutPanic(c)
    \/ FanoutEnd(c)
    \/ SubInsert(c)

Next ==
    \E c \in Conn :
        \/ Accept(c)
        \/ PeerClose(c)
        \/ PeerReset(c)
        \/ Tick(c)
        \/ Worker(c)

Spec == Init /\ [][Next]_vars

\* the message ids of the QoS 1 PUBLISH frames the reads of connection c
\* returned, in the order of the byte stream
OwedIds(c) == [i \in 1..Len(owed[c]) |-> owed[c][i][2]]

\* the message ids of the PUBACKs written to connection c that answer one
\* of those frames, in the order written
AckedIds(c) ==
    LET acks == SelectSeq(out[c], LAMBDA e :
                    /\ PacketType(e.bytes) = 4
                    /\ \E i \in 1..Len(owed[c]) : U16(e.bytes[3], e.bytes[4]) = owed[c][i][2])
    IN [i \in 1..Len(acks) |-> U16(acks[i].bytes[3], acks[i].bytes[4])]

\* C15: every packet of a connection's byte stream is dispatched exactly
\* once and in the order sent, however the stream is cut into reads: once
\* the handler is back at its read, the PUBACKs written for the QoS 1
\* PUBLISH frames its reads returned are one per frame, in stream order.
C15_DispatchedOnceInOrder ==
    \A c \in Conn :
        (hello[c] = "connect" /\ pc[c] = "loop") => AckedIds(c) = OwedIds(c)

\* the number of PUBACKs written to connection c so far (o is out or out')
PubAcks(o, c) == Cardinality({ i \in 1..Len(o[c]) : PacketType(o[c][i].bytes) = 4 })

\* C16: on a connected client's connection, the step that decodes a
\* PUBLISH writes one PUBACK to the publisher when qos > 0 and none when
\* qos = 0, and no other step writes a PUBACK.
C16_PubAckOnlyAboveQos0 ==
    [][\A c \in Conn :
        LET decoded == pc[c] = "loop" /\ pc'[c] = "pub_lock"
        IN hello[c] = "connect" =>
              PubAcks(out', c) - PubAcks(out, c)
                  = IF decoded /\ pkt'[c].p.qos > 0 THEN 1 ELSE 0
      ]_vars

\* ---- one publisher's messages on one subscriber's socket ----

\* PUBLISH frames told apart by their message ids, and a SUBSCRIBE to both
\* topics
OrderFrames ==
    { PublishEncode([topic_name |-> General, message_id |-> 1, qos |-> 1,
                     retain |-> FALSE, dup |-> FALSE, payload |-> <<104>>]),
      PublishEncode([topic_name |-> General, message_id |-> 2, qos |-> 1,
                     retain |-> FALSE, dup |-> FALSE, payload |-> <<105>>]),
      PublishEncode([topic_name |-> Status, message_id |-> 3, qos |-> 1,
                     retain |-> FALSE, dup |-> FALSE, payload |-> <<104>>]),
      SubscribeEncode([packet_id |-> 1, topic_filters |-> <<General, Status>>,
                       qos_values |-> <<1, 1>>]) }

OrderReads == { [bytes |-> f, frames |-> <<f>>] : f \in OrderFrames }

\* the broker as in Next, with clients that connect and then send these
\* frames
OrderNext ==
    \E c \in Conn :
        \/ Accept(c)
        \/ PeerClose(c)
        \/ PeerReset(c)
        \/ Tick(c)
        \/ FirstRead(c, [bytes |-> ConnectFrame, frames |-> <<ConnectFrame>>])
        \/ FirstReadNothing(c)
        \/ ReadError(c)
        \/ ReadEof(c)
        \/ \E read \in OrderReads : ReadFrame(c, read)
        \/ LockPoisoned(c)
        \/ PubLock(c)
        \/ FanoutWrite(c)
        \/ FanoutPanic(c)
        \/ FanoutEnd(c)
        \/ SubInsert(c)

OrderSpec == Init /\ [][OrderNext]_vars

\* the message ids of the PUBLISH frames on topic the reads of connection c
\* returned, in the order of the byte stream
SentIds(c, topic) ==
    LET sent == SelectSeq(owed[c], LAMBDA e : e[1] = topic)
    IN [i \in 1..Len(sent) |-> sent[i][2]]

\* the message ids of the PUBLISH packets on topic that the handler of c
\* wrote to connection h, in the order written
ForwardedIds(h, c, topic) ==
    LET got == SelectSeq(out[h], LAMBDA e :
                   /\ e.by = c
                   /\ PacketType(e.bytes) = 3
                   /\ PublishDecode(e.bytes).topic_name = topic)
    IN [i \in 1..Len(got) |-> PublishDecode(got[i].bytes).message_id]

\* the elements of a can be matched one after the other with elements of
\* b without ever going back in b; an element of b may be matched by
\* several successive elements of a (a handle stored twice under a topic is
\* written twice in one pass of the subscriber loop)
RECURSIVE InOrderOf(_, _)
InOrderOf(a, b) ==
    IF a = <<>> THEN TRUE
    ELSE IF b = <<>> THEN FALSE
    ELSE IF Head(a) = Head(b) THEN InOrderOf(Tail(a), b)
    ELSE InOrderOf(a, Tail(b))

\* C17: on a subscriber's connection the messages of one publisher on one
\* topic appear in the order the publisher sent them: what was written
\* follows the publisher's stream and never goes back in it.
C17_PublishOrderKept ==
    \A h \in Conn : \A c \in Conn : \A topic \in {General, Status} :
        InOrderOf(ForwardedIds(h, c, topic), SentIds(c, topic))

\* a subscriber was written two different messages of one publisher on one
\* topic
C17_TwoMessagesForwarded ==
    \E h \in Conn : \E c \in Conn \ {h} :
        LET ids == ForwardedIds(h, c, General)
        IN Len(ids) >= 2 /\ ids[1] # ids[2]

\* the handler of c, past the PUBACK of a decoded PUBLISH, is about to look
\* its topic up and no session is registered under it
NobodyListens(c) ==
    pc[c] = "pub_lock" /\ pkt[c].p.topic_name \notin DOMAIN registry

\* C18: a PUBLISH on a topic without registered session has its PUBACK
\* written to the publisher; the step that follows writes to no other
\* connection and leaves the registry as it is, and unless the keep-alive
\* period has run out the handler is back at its read with nothing more
\* written.
C18_NobodyListens ==
    [][\A c \in Conn :
        (hello[c] = "connect" /\ NobodyListens(c)) =>
            /\ Written(c, c, PubAckEncode(pkt[c].p.message_id)) # {}
            /\ pc'[c] # pc[c] =>
                  /\ registry' = registry
                  /\ \A h \in Conn \ {c} : out'[h] = out[h]
                  /\ ~late[c] => (pc'[c] = "loop" /\ out'[c] = out[c])
      ]_vars

\* ---- writes that fail on the handler's own connection ----

\* the broker with clients that connect, send one frame per read and may be
\* reset at any time, also between a read and the write that answers it
ResetNext ==
    \E c \in Conn :
        \/ Accept(c)
        \/ PeerReset(c)
        \/ FirstRead(c, [bytes |-> ConnectFrame, frames |-> <<ConnectFrame>>])
        \/ ReadError(c)
        \/ \E f \in Menu : ReadFrame(c, [bytes |-> f, frames |-> <<f>>])
        \/ \E f \in Menu : ReadFrameThenReset(c, [bytes |-> f, frames |-> <<f>>])
        \/ LockPoisoned(c)
        \/ PubLock(c)
        \/ FanoutWrite(c)
        \/ FanoutPanic(c)
        \/ FanoutEnd(c)
        \/ SubInsert(c)

ResetSpec == Init /\ [][ResetNext]_vars

\* C19: a step in which the handler of c writes to its own connection and
\* the write fails, the connection being reset, ends with the handler out
\* of its loop and past its cleanup, or at the latest back at the read
\* that fails in turn: the handler does not go on with the arm.
C19_FailedWriteEndsHandler ==
    [][\A c \in Conn :
        LET n == Len(out'[c])
        IN (n > Len(out[c]) /\ out'[c][n].by = c /\ ~PeerAddrOk(c)') =>
              pc'[c] \in {"done", "loop"}
      ]_vars

\* ---- frames the loop skips ----

\* frames no arm of the loop acts on: PUBLISH, SUBSCRIBE and DISCONNECT
\* frames that do not decode, and frames of other types
BadFrames ==
    { <<48, 2, 0, 7>>,                    \* PUBLISH, topic cut short
      <<48, 3, 0, 1, 255>>,               \* PUBLISH, topic not UTF-8
      <<50, 3, 0, 1, 116>>,               \* PUBLISH qos 1 without message id
      <<128, 2, 0, 1>>,                   \* type 8 with flags 0
      <<130, 7, 0, 1, 0, 0, 0>>,          \* SUBSCRIBE, empty topic filter
      <<130, 12, 0, 1, 0, 7, 71>>,        \* SUBSCRIBE, topic filter cut short
      <<224, 3, 0, 17, 5>>,               \* DISCONNECT, property cut short
      ConnectFrame,                       \* a second CONNECT
      <<64, 2, 0, 1>>,                    \* PUBACK
      <<208, 0>>,                         \* PINGRESP
      <<0>>,                              \* type 0
      <<240, 0>> }                        \* type 15

SkipFrames ==
    BadFrames \cup
        { SubscribeEncode([packet_id |-> 1, topic_filters |-> <<General>>,
                           qos_values |-> <<1>>]),
          PublishEncode([topic_name |-> General, message_id |-> 1, qos |-> 1,
                         retain |-> FALSE, dup |-> FALSE, payload |-> <<104>>]),
          PingReqEncode }

SkipReads == { [bytes |-> f, frames |-> <<f>>] : f \in SkipFrames }

\* connected clients that send these frames, one per read, or fall silent
SkipNext ==
    \E c \in Conn :
        \/ Accept(c)
        \/ Tick(c)
        \/ FirstRead(c, [bytes |-> ConnectFrame, frames |-> <<ConnectFrame>>])
        \/ \E read \in SkipReads : ReadFrame(c, read)
        \/ PubLock(c)
        \/ FanoutWrite(c)
        \/ FanoutEnd(c)
        \/ SubInsert(c)

SkipSpec == Init /\ [][SkipNext]_vars

\* no arm acts on these bytes: the decode of the arm fails, or the type
\* falls to the default arm
Skipped(buffer) ==
    LET type == PacketType(buffer)
    IN \/ type = 3 /\ ~PublishDecode(buffer).ok
       \/ type = 8 /\ ~SubscribeDecode(buffer).ok
       \/ type = 14 /\ ~DisconnectDecodeOk(buffer)
       \/ type \notin {3, 8, 12, 14}

ExitReads ==
    { [bytes |-> f, frames |-> <<f>>] :
        f \in { g \in Menu : PacketType(g) \in {1, 12, 14} } }

\* connected clients that send these frames, fall silent, close or are reset
ExitNext ==
    \E c \in Conn :
        \/ Accept(c)
        \/ PeerClose(c)
        \/ PeerReset(c)
        \/ Tick(c)
        \/ FirstRead(c, [bytes |-> ConnectFrame, frames |-> <<ConnectFrame>>])
        \/ ReadError(c)
        \/ ReadEof(c)
        \/ \E read \in ExitReads : ReadFrame(c, read)

ExitSpec == Init /\ [][ExitNext]_vars

\* DISCONNECT(NormalDisconnection) with the property the broker adds
NormalGoodbye == <<224, 4, 0, 17, 1, 2>>

\* the DISCONNECT frames written to connection c so far (o is out or out')
Goodbyes(o, c) == SelectSeq(o[c], LAMBDA e : PacketType(e.bytes) = 14)

\* C21: when the handler of a connected client leaves its loop, then after
\* a read of EOF it has written one DISCONNECT(NormalDisconnection) more
\* than before, and after a read error or a DISCONNECT frame that decoded
\* it has written nothing.
C21_GoodbyeOnlyOnEof ==
    [][\A c \in Conn :
        (hello[c] = "connect" /\ pc[c] = "loop" /\ pc'[c] = "done") =>
            /\ peer[c] = "fin" =>
                  /\ Goodbyes(out', c)
                        = Append(Goodbyes(out, c), [by |-> c, bytes |-> NormalGoodbye])
                  /\ Len(out'[c]) = Len(out[c]) + 1
            /\ peer[c] = "rst" => out' = out
            /\ (\E read \in ExitReads :
                    /\ PacketType(read.bytes) = 14
                    /\ DisconnectDecodeOk(read.bytes)
                    /\ ReadFrame(c, read)) => out' = out
      ]_vars

\* a connected client closed and its handler has left with the DISCONNECT
C21_GoodbyeAfterEof ==
    \E c \in Conn :
        /\ hello[c] = "connect" /\ pc[c] = "done" /\ peer[c] = "fin"
        /\ out[c][Len(out[c])] = [by |-> c, bytes |-> NormalGoodbye]

\* ---- PINGREQ and PINGRESP ----

\* what a read may return of a client that pings: the frames of ExitReads
\* one by one, or two PINGREQ frames sent one right after the other
PingReads ==
    ExitReads \cup { [bytes |-> PingReqEncode \o PingReqEncode,
                      frames |-> <<PingReqEncode, PingReqEncode>>] }

PingNext ==
    \E c \in Conn :
        \/ Accept(c)
        \/ Tick(c)
        \/ FirstRead(c, [bytes |-> ConnectFrame, frames |-> <<ConnectFrame>>])
        \/ \E read \in PingReads : ReadFrame(c, read)

PingSpec == Init /\ [][PingNext]_vars

\* the number of PINGRESP frames written to connection c (o is out or out')
PingResps(o, c) ==
    Cardinality({ i \in 1..Len(o[c]) : o[c][i] = [by |-> c, bytes |-> <<208, 0>>] })

\* the number of PINGREQ frames (C0 00) among frames
PingReqs(frames) ==
    Cardinality({ i \in 1..Len(frames) : frames[i] = <<192, 0>> })

\* C22: PINGREQ encodes to C0 00; a read of a connected client's loop is
\* answered by one PINGRESP (D0 00) for each PINGREQ frame it returned and
\* by none for the other frames, and after a PINGREQ the keep-alive period
\* starts anew: the handler stays at its read.
C22_OnePingRespPerPingReq ==
    [][/\ PingReqEncode = <<192, 0>>
       /\ \A c \in Conn : \A read \in PingReads :
            (hello[c] = "connect" /\ ReadFrame(c, read)) =>
                /\ PingResps(out', c) - PingResps(out, c) = PingReqs(read.frames)
                /\ PingReqs(read.frames) > 0 => (pc'[c] = "loop" /\ ~late'[c])
      ]_vars

\* the handlers inside the subscriber loop of the PUBLISH arm
InFanout == { c \in Conn : pc[c] = "fanout" }

\* C23: the registry is read and written under its guard only: a handler
\* inside the subscriber loop holds the guard, at most one handler is
\* inside at a time, the registry changes only in a step that found the
\* guard free, and the subscriber set of a fan-out in progress stays as it
\* is from one write to the next.
C23_RegistryUnderGuard ==
    [][/\ \A c \in InFanout : guard = c
       /\ Cardinality(InFanout) <= 1
       /\ registry' # registry => guard = 0
       /\ \A c \in InFanout : pc'[c] = "fanout" =>
              /\ pkt'[c] = pkt[c]
              /\ registry'[pkt[c].p.topic_name] = Subscribers(c)
      ]_vars

\* a fan-out has made its first turn while another handler waits at the
\* lock with a SUBSCRIBE to insert
C23_SubscribeWaitsForFanout ==
    \E c \in Conn : \E h \in Conn \ {c} :
        pc[c] = "fanout" /\ idx[c] > 1 /\ pc[h] = "sub_lock"

\* ---- the codec on its own ----

\* byte sequences of up to MaxBody bytes, over a byte below and a byte
\* above 0x80 and zero
Bodies == UNION { [1..n -> {0, 104, 200}] : n \in 0..MaxBody }

\* PublishPacket::new with any fields; message_id is 0 when qos = 0
PublishPackets ==
    { [kind |-> "publish",
       p |-> [topic_name |-> t, message_id |-> IF q > 0 THEN m ELSE 0, qos |-> q,
              retain |-> r, dup |-> d, payload |-> b]] :
        t \in {General, OtherTopic, <<>>}, m \in {1, 258}, q \in {0, 1, 2},
        r \in BOOLEAN, d \in BOOLEAN, b \in Bodies }

\* a string of n bytes "a"
Letters(n) == [i \in 1..n |-> 97]

\* the protocol name "MQTT"
ProtocolName == <<77, 81, 84, 84>>

\* ConnectPacket::new with the optional fields that the flag byte
\* announces: will (0x04), username (0x80), password (0x40); client ids
\* and usernames short and long
ConnectPackets ==
    { [kind |-> "connect",
       p |-> [protocol_name |-> ProtocolName, protocol_level |-> 5,
              connect_flags |-> f, keep_alive |-> k, client_id |-> id,
              will_topic |-> IF (f \div 4) % 2 = 1 THEN Some(OtherTopic) ELSE None,
              will_message |-> IF (f \div 4) % 2 = 1 THEN Some(w) ELSE None,
              username |-> IF f \div 128 = 1 THEN Some(u) ELSE None,
              password |-> IF (f \div 64) % 2 = 1 THEN Some(<<112>>) ELSE None]] :
        f \in {2, 6, 130, 194, 198}, k \in {60, 300},
        id \in {<<>>, <<99>>, Letters(115), Letters(116)},
        w \in {<<>>, <<104, 105>>}, u \in {<<117>>, Letters(128)} }

\* a value that is absent or present
Maybe(v) == {None, Some(v)}

\* ConnAckPacket with either flag, every reason code, and properties absent
\* or carrying any of the four that encode writes
ConnAckPackets ==
    { [kind |-> "connack",
       p |-> [session_present |-> sp, reason_code |-> rc, properties |-> props]] :
        sp \in BOOLEAN, rc \in ConnAckReasonCodes,
        props \in {None} \cup
            { Some([session_expiry_interval |-> sei, receive_maximum |-> rm,
                    maximum_packet_size |-> mps, assigned_client_identifier |-> aci]) :
                sei \in Maybe(3600), rm \in Maybe(258), mps \in Maybe(65536),
                aci \in Maybe(<<99>>) \cup {Some(Letters(130))} } }

\* DISCONNECT packets: each reason code, and up to two properties in the order
\* the iteration of the map gives them to encode
DisconnectPairs == { <<k, v>> : k \in {17, 31}, v \in Bodies }
                        \cup { <<31, Letters(130)>> }
DisconnectPackets ==
    { [kind |-> "disconnect", p |-> [reason_code |-> rc, properties |-> props]] :
        rc \in {0, 4, 139, 141},
        props \in {<<>>} \cup { <<a>> : a \in DisconnectPairs }
                  \cup { <<a, b>> : a \in {x \in DisconnectPairs : x[1] = 17},
                                   b \in {x \in DisconnectPairs : x[1] = 31} }
                  \cup { <<b, a>> : a \in {x \in DisconnectPairs : x[1] = 17},
                                   b \in {x \in DisconnectPairs : x[1] = 31} } }

\* SUBSCRIBE packets: one or more non-empty topic filters, one of them longer
\* than 127 bytes, and as many requested QoS bytes
SubscribeTopics == {General, <<116, 101, 115, 116>>, <<97>>, Letters(130)}
SubscribePackets ==
    { [kind |-> "subscribe", p |-> [packet_id |-> id, topic_filters |-> tf, qos_values |-> qs]] :
        id \in {1, 258},
        tf \in UNION { [1..n -> SubscribeTopics] : n \in 1..MaxFilters },
        qs \in UNION { [1..n -> {0, 1, 2}] : n \in 1..MaxFilters } }

\* PUBACK packets, and frames as a peer may send them to the PUBACK decoder:
\* a first byte, a remaining-length field (of 2 and not, in one byte and in
\* more, cut short, and long enough to overflow a usize), and what follows
PubAckPackets ==
    { [kind |-> "puback", p |-> [packet_id |-> id]] : id \in {0, 42, 255, 256, 258, 65535} }
LengthFields ==
    { <<>>, <<0>>, <<1>>, <<2>>, <<3>>, <<130>>, <<130, 0>>, <<130, 1>>, <<128, 1>>,
      <<130, 128, 128, 128, 1>>,
      <<130, 128, 128, 128, 128, 128, 128, 128, 128, 1>>,
      <<130, 128, 128, 128, 128, 128, 128, 128, 128, 2>>,
      <<130, 128, 128, 128, 128, 128, 128, 128, 128, 128, 1>> }
PubAckFrames ==
    { [kind |-> "frame", p |-> [bytes |-> <<b>> \o len \o rest]] :
        b \in {64, 65, 48, 0}, len \in LengthFields,
        rest \in {<<>>, <<0>>, <<0, 42>>, <<1, 2, 0>>} }

\* SUBACK packets: one return code or more, and 130 of them
SubAckPackets ==
    { [kind |-> "suback", p |-> [packet_id |-> id, return_codes |-> rc]] :
        id \in {1, 258},
        rc \in UNION { [1..n -> {0, 1, 2, 128}] : n \in 1..MaxFilters }
                  \cup { [i \in 1..130 |-> 0] } }

\* remaining-length fields as a peer may send them, followed by two bytes or
\* by none, for the usize reader of subscribe.rs, suback.rs and puback.rs and
\* for the u16 loop of publish.rs
WellFormedLengths ==
    { <<0>>, <<2>>, <<127>>, <<128, 1>>, <<255, 127>>, <<128, 128, 1>>, <<255, 255, 3>>,
      <<255, 255, 127>>, <<128, 128, 128, 1>>, <<255, 255, 255, 127>> }
LengthInputs ==
    { [kind |-> k, p |-> [bytes |-> len \o rest]] :
        k \in {"length_usize", "length_u16"},
        len \in LengthFields \cup WellFormedLengths
                  \cup { <<128, 128, 128, 128, 1>>, <<130, 128, 128, 128, 0>>,
                         <<255, 255, 255, 255, 127>>, <<128, 128, 128, 128>> },
        rest \in {<<>>, <<0, 42>>} }

\* frames for the decoders with a first byte that is not theirs: the encoding
\* of a short packet of each type with its first byte replaced
RetypedSamples ==
    { q \in PublishPackets : /\ q.p.topic_name = General /\ q.p.payload = <<104>>
                             /\ ~q.p.retain /\ ~q.p.dup /\ q.p.message_id \in {0, 1} }
      \cup { q \in ConnectPackets : /\ q.p.client_id = <<99>> /\ q.p.keep_alive = 60
                                    /\ q.p.will_message \in {None, Some(<<>>)}
                                    /\ q.p.username \in {None, Some(<<117>>)} }
      \cup { q \in ConnAckPackets : q.p.properties = None /\ q.p.reason_code \in {0, 135} }
      \cup { q \in DisconnectPackets : q.p.properties = <<>> }
      \cup { q \in SubscribePackets : q.p.topic_filters = <<General>> /\ q.p.qos_values = <<1>> }
      \cup PubAckPackets
      \cup { q \in SubAckPackets : Len(q.p.return_codes) = 1 }
FirstBytes == {0, 16, 32, 48, 50, 64, 130, 144, 224}
\* the first byte a decoder expects: a type in the high four bits for PUBLISH,
\* the whole byte for the others
ExpectedFirst(kind, b) ==
    IF kind = "connect" THEN b = 16
    ELSE IF kind = "connack" THEN b = 32
    ELSE IF kind = "publish" THEN b \div 16 = 3
    ELSE IF kind = "puback" THEN b = 64
    ELSE IF kind = "subscribe" THEN b = 130
    ELSE IF kind = "suback" THEN b = 144
    ELSE b = 224
RetypedInputs ==
    { [kind |-> "retyped", p |-> [of |-> q, first |-> b]] :
        q \in RetypedSamples, b \in FirstBytes }

\* CONNECT of "client1" with the username "user" and the password "password"
ConnectExample ==
    [kind |-> "connect",
     p |-> [protocol_name |-> ProtocolName, protocol_level |-> 5,
            connect_flags |-> 194, keep_alive |-> 60,
            client_id |-> <<99, 108, 105, 101, 110, 116, 49>>,
            will_topic |-> None, will_message |-> None,
            username |-> Some(<<117, 115, 101, 114>>),
            password |-> Some(<<112, 97, 115, 115, 119, 111, 114, 100>>)]]

\* reason codes to convert to a byte and back, and every byte to convert to
\* a reason code
ReasonCodeInputs ==
    { [kind |-> "connack_code", p |-> [code |-> c]] : c \in DOMAIN ConnAckReasonCode }
      \cup { [kind |-> k, p |-> [byte |-> b]] :
                k \in {"connack_byte", "disconnect_byte"}, b \in 0..255 }

\* CONNECT packets as ConnectPacket::new takes them: the flags and the
\* optional fields are separate arguments.  The one with flags 0b00000010, no
\* will, the username "user" and the password "password" is the packet of
\* send_connect_packet.
ConnectArguments ==
    { [kind |-> "connect_new",
       p |-> [protocol_name |-> ProtocolName, protocol_level |-> 5,
              connect_flags |-> f, keep_alive |-> 60,
              client_id |-> <<99, 108, 105, 101, 110, 116, 49>>,
              will_topic |-> w, will_message |-> w,
              username |-> u, password |-> pw]] :
        f \in {2, 6, 66, 130, 194, 198},
        w \in Maybe(OtherTopic), u \in Maybe(<<117, 115, 101, 114>>),
        pw \in Maybe(<<112, 97, 115, 115, 119, 111, 114, 100>>) }

CodecPackets == PublishPackets \cup ConnectPackets \cup ConnAckPackets
                    \cup ConnectArguments
                    \cup ReasonCodeInputs
                    \cup {ConnectExample}
                    \cup { r \in RetypedInputs : ~ExpectedFirst(r.p.of.kind, r.p.first) }
                    \cup LengthInputs
                    \cup DisconnectPackets
                    \cup { q \in SubscribePackets :
                             Len(q.p.topic_filters) = Len(q.p.qos_values) }
                    \cup PubAckPackets \cup PubAckFrames \cup SubAckPackets

\* encode() of the packet's type
PacketEncode(q) ==
    IF q.kind = "connect" THEN ConnectEncode(q.p)
    ELSE IF q.kind = "connack" THEN ConnAckPacketEncode(q.p)
    ELSE IF q.kind = "disconnect" THEN DisconnectEncode(q.p.reason_code, q.p.properties)
    ELSE IF q.kind = "subscribe" THEN SubscribeEncode(q.p)
    ELSE IF q.kind = "puback" THEN PubAckEncode(q.p.packet_id)
    ELSE IF q.kind = "suback" THEN SubAckEncode(q.p.packet_id, q.p.return_codes)
    ELSE PublishEncode(q.p)

\* the bytes connection 1 sends: the packet encoded, or the bytes as they are
CodecEncode(q) ==
    IF q.kind = "retyped" THEN <<q.p.first>> \o Tail(PacketEncode(q.p.of))
    ELSE IF q.kind = "connect_new" THEN ConnectEncode(q.p)
    ELSE IF q.kind = "connack_code" THEN <<ConnAckToByte(q.p.code)>>
    ELSE IF q.kind \in {"connack_byte", "disconnect_byte"} THEN <<q.p.byte>>
    ELSE IF q.kind = "connect" THEN ConnectEncode(q.p)
    ELSE IF q.kind = "connack" THEN ConnAckPacketEncode(q.p)
    ELSE IF q.kind = "disconnect" THEN DisconnectEncode(q.p.reason_code, q.p.properties)
    ELSE IF q.kind = "subscribe" THEN SubscribeEncode(q.p)
    ELSE IF q.kind = "puback" THEN PubAckEncode(q.p.packet_id)
    ELSE IF q.kind = "suback" THEN SubAckEncode(q.p.packet_id, q.p.return_codes)
    ELSE IF q.kind \in {"frame", "length_usize", "length_u16"} THEN q.p.bytes
    ELSE PublishEncode(q.p)

\* the decoder the bytes of q are given to
DecoderOf(q) == IF q.kind = "retyped" THEN q.p.of.kind ELSE q.kind

\* decode() of the packet type kind
CodecDecode(kind, data, build) ==
    IF kind \in {"connect", "connect_new"} THEN ConnectDecode(data)
    ELSE IF kind = "connack" THEN ConnAckDecode(data)
    ELSE IF kind = "disconnect" THEN DisconnectDecode(data)
    ELSE IF kind = "subscribe" THEN SubscribeDecode(data)
    ELSE IF kind \in {"puback", "frame"} THEN PubAckDecode(data, build)
    ELSE IF kind = "suback" THEN SubAckDecode(data)
    ELSE IF kind \in {"connack_code", "connack_byte"} THEN ConnAckFromByte(data[1])
    ELSE IF kind = "disconnect_byte" THEN DisconnectFromU8(data[1])
    ELSE IF kind = "length_usize" THEN PubAckReadRemainingLength(data, 0, 0, 0, FALSE, build)
    ELSE IF kind = "length_u16" THEN PublishReadLength(data, 0, 0, 0, build)
    ELSE PublishDecode(data)


\* connection 1 has built a packet it is about to send to connection 2
CodecInit ==
    /\ \E q \in CodecPackets : pkt = [c \in Conn |-> IF c = 1 THEN q ELSE NoPacket]
    /\ pc = [c \in Conn |-> IF c = 1 THEN "built" ELSE "unborn"]
    /\ peer = [c \in Conn |-> "open"]
    /\ out = [c \in Conn |-> <<>>]
    /\ registry = <<>>
    /\ clients = <<>>
    /\ guard = 0
    /\ poisoned = FALSE
    /\ late = [c \in Conn |-> FALSE]
    /\ idx = [c \in Conn |-> 0]
    /\ hello = [c \in Conn |-> "none"]
    /\ packet_type = [c \in Conn |-> 0]
    /\ asked = [c \in Conn |-> {}]
    /\ owed = [c \in Conn |-> <<>>]
    /\ nsent = 0

\* the packet is encoded and the bytes written
CodecSend ==
    /\ pc[1] = "built"
    /\ out' = WriteTo(out, 1, 2, CodecEncode(pkt[1]))
    /\ pc' = [pc EXCEPT ![1] = "sent"]
    /\ UNCHANGED <<peer, registry, clients, guard, poisoned, late, pkt, idx,
                   hello, packet_type, asked, owed, nsent>>

\* one read returns the bytes and they are decoded, by either build
CodecReceive ==
    /\ pc[1] = "sent" /\ pc[2] = "unborn"
    /\ \E build \in Builds :
         pkt' = [pkt EXCEPT ![2] = CodecDecode(DecoderOf(pkt[1]), out[2][1].bytes, build)]
    /\ pc' = [pc EXCEPT ![2] = "received"]
    /\ UNCHANGED <<peer, out, registry, clients, guard, poisoned, late, idx,
                   hello, packet_type, asked, owed, nsent>>

CodecNext == CodecSend \/ CodecReceive

CodecSpec == CodecInit /\ [][CodecNext]_vars

\* the packet built, the bytes it was encoded to and what they decoded to
Built == pkt[1].p
Wire == out[2][1].bytes
Decoded == pkt[2]
Received(kind) == pc[2] = "received" /\ pkt[1].kind = kind

\* C24: a PUBLISH packet decodes from its encoding to the packet it was,
\* and the encoding carries the two bytes of message_id exactly when
\* qos > 0.
C24_PublishRoundTrip ==
    Received("publish") =>
        /\ Decoded = [ok |-> TRUE, topic_name |-> Built.topic_name,
                      message_id |-> Built.message_id, qos |-> Built.qos,
                      retain |-> Built.retain, dup |-> Built.dup,
                      payload |-> Built.payload]
        /\ Len(Wire) = 2 + 2 + Len(Built.topic_name)
                          + (IF Built.qos > 0 THEN 2 ELSE 0) + Len(Built.payload)

\* the CONNECT packet decoded is the one built
SameConnect ==
    Decoded = [ok |-> TRUE, protocol_name |-> Built.protocol_name,
               protocol_level |-> Built.protocol_level,
               connect_flags |-> Built.connect_flags,
               keep_alive |-> Built.keep_alive, client_id |-> Built.client_id,
               will_topic |-> Built.will_topic, will_message |-> Built.will_message,
               username |-> Built.username, password |-> Built.password]

\* C25: a CONNECT packet whose optional fields are those its flags
\* announce decodes from its encoding to the packet it was, also when
\* variable header and payload take 128 bytes or more.
C25_ConnectRoundTrip ==
    Received("connect") => SameConnect

\* the same for the packets whose variable header and payload take less
\* than 128 bytes: the remaining length is one byte
ConnectRoundTripShort ==
    (Received("connect") /\ Len(Wire) < 2 + 128) => SameConnect

\* the CONNACK packet decoded is the one built
SameConnAck ==
    Decoded = [ok |-> TRUE, session_present |-> Built.session_present,
               reason_code |-> Built.reason_code, properties |-> Built.properties]

\* C26: a CONNACK packet decodes from its encoding to the packet it was,
\* with properties absent or present, and CONNACK(false, Success) without
\* properties encodes to 20 03 00 00 00.
C26_ConnAckRoundTrip ==
    Received("connack") =>
        /\ SameConnAck
        /\ (~Built.session_present /\ Built.reason_code = 0 /\ Built.properties = None)
              => Wire = <<32, 3, 0, 0, 0>>

\* the same for the packets without properties
ConnAckRoundTripBare ==
    (Received("connack") /\ Built.properties = None) =>
        /\ SameConnAck
        /\ (~Built.session_present /\ Built.reason_code = 0) => Wire = <<32, 3, 0, 0, 0>>

\* C27: a DISCONNECT packet decodes from its encoding to a packet with the
\* same reason code and the same map from property identifier to value.
C27_DisconnectRoundTrip ==
    Received("disconnect") =>
        Decoded = [ok |-> TRUE, reason_code |-> Built.reason_code,
                   properties |-> DisconnectMap(Built.properties)]

\* the same for the packets that carry no property
DisconnectRoundTripBare ==
    (Received("disconnect") /\ Built.properties = <<>>) =>
        Decoded = [ok |-> TRUE, reason_code |-> Built.reason_code,
                   properties |-> <<>>]

\* C28: the encoding of a SUBSCRIBE packet starts with 0x82, and a SUBSCRIBE
\* packet with one or more non-empty topic filters and as many QoS bytes
\* decodes from its encoding to the packet it was: packet_id, topic filters
\* and requested QoS, in order.
C28_SubscribeRoundTrip ==
    Received("subscribe") =>
        /\ Wire[1] = 130
        /\ Decoded = [ok |-> TRUE, packet_id |-> Built.packet_id,
                      topic_filters |-> Built.topic_filters,
                      qos_values |-> Built.qos_values]

\* two different filters with different QoS, a two-byte packet identifier and
\* a remaining length of two bytes have been through encode and decode
C28_LongSubscribeDecoded ==
    /\ Received("subscribe")
    /\ Built.packet_id = 258
    /\ Built.topic_filters = <<Letters(130), General>>
    /\ Built.qos_values = <<2, 0>>
    /\ Wire[2] >= 128
    /\ Decoded.ok

\* the 7-bit groups of the remaining-length field of a frame, up to its
\* first byte below 0x80; none when the field is cut short
RECURSIVE LengthGroups(_, _)
LengthGroups(frame, pos) ==
    IF ~CanRead(frame, pos, 1) THEN <<>>
    ELSE IF frame[pos + 1] < 128 THEN <<frame[pos + 1]>>
    ELSE LET rest == LengthGroups(frame, pos + 1)
         IN IF rest = <<>> THEN <<>> ELSE <<frame[pos + 1] % 128>> \o rest
RemainingLengthIs2(frame) ==
    LET groups == LengthGroups(frame, 1)
    IN /\ groups # <<>>
       /\ groups[1] = 2
       /\ \A i \in 2..Len(groups) : groups[i] = 0

\* C29: PubAckPacket::new(id).encode() is 0x40, 0x02, the high byte and the
\* low byte of id; decode returns id from these bytes, and returns an error
\* for every frame whose first byte is not 0x40 or whose remaining length is
\* not 2.
C29_PubAckFrames ==
    /\ Received("puback") =>
            /\ Wire = <<64, 2, Built.packet_id \div 256, Built.packet_id % 256>>
            /\ Decoded = [ok |-> TRUE, packet_id |-> Built.packet_id]
    /\ (Received("frame") /\ (Built.bytes[1] # 64 \/ ~RemainingLengthIs2(Built.bytes)))
            => Decoded = Fail

\* the same for the frames whose remaining-length field is of at most four
\* bytes
PubAckFramesShortLength ==
    /\ Received("puback") =>
            /\ Wire = <<64, 2, Built.packet_id \div 256, Built.packet_id % 256>>
            /\ Decoded = [ok |-> TRUE, packet_id |-> Built.packet_id]
    /\ (/\ Received("frame")
        /\ Len(LengthGroups(Built.bytes, 1)) <= 4
        /\ (Built.bytes[1] # 64 \/ ~RemainingLengthIs2(Built.bytes)))
            => Decoded = Fail

\* the value of 7-bit groups, the least significant first
RECURSIVE GroupsValue(_)
GroupsValue(groups) ==
    IF groups = <<>> THEN 0 ELSE Head(groups) + 128 * GroupsValue(Tail(groups))

\* the remaining-length field of a frame is a VarInt of the least width whose
\* value is the number of bytes after it
ExactLength(frame) ==
    LET groups == LengthGroups(frame, 1)
    IN /\ Len(groups) \in 1..4
       /\ Len(groups) > 1 => groups[Len(groups)] # 0
       /\ GroupsValue(groups) = Len(frame) - 1 - Len(groups)

Encoded ==
    /\ pc[1] # "built"
    /\ pkt[1].kind \in {"connect", "connack", "publish", "puback", "subscribe",
                         "suback", "disconnect"}

\* C30: in every frame an encoder emits (CONNECT, CONNACK, PUBLISH, PUBACK,
\* SUBSCRIBE, SUBACK, DISCONNECT) the remaining-length field is a VarInt of
\* the least width whose value is the number of bytes that follow it, for
\* every qos and for bodies of 128 bytes or more as for shorter ones.
C30_RemainingLengthExact ==
    Encoded => ExactLength(Wire)

\* the same for CONNECT, PUBACK, SUBSCRIBE and SUBACK at any length, for
\* PUBLISH above QoS 0, and for CONNACK and DISCONNECT below 128 bytes
RemainingLengthExactElsewhere ==
    (/\ Encoded
     /\ pkt[1].kind = "publish" => Built.qos > 0
     /\ pkt[1].kind \in {"connack", "disconnect"} => Len(Wire) < 130)
        => ExactLength(Wire)

\* the first four bytes of the length field all have the continuation bit
FourContinuations(bytes) ==
    Len(bytes) >= 4 /\ \A i \in 1..4 : bytes[i] >= 128

\* the length field is of one to four bytes, the last one below 0x80
WellFormedLength(bytes) == Len(LengthGroups(bytes, 0)) \in 1..4

\* C31: every remaining-length decoder returns an error, without overflowing
\* or aborting, when the first four length bytes all have the continuation
\* bit, and accepts every well-formed length of one to four bytes.
C31_LengthOfFiveBytesRefused ==
    \A k \in {"length_usize", "length_u16"} :
        Received(k) =>
            /\ FourContinuations(Built.bytes) => Decoded = Fail
            /\ WellFormedLength(Built.bytes) => Decoded.ok

\* the usize reader accepts every well-formed length with its value and the
\* position after it, by either build
LengthUsizeAccepted ==
    (Received("length_usize") /\ WellFormedLength(Built.bytes)) =>
        LET groups == LengthGroups(Built.bytes, 0)
        IN Decoded = [ok |-> TRUE, low |-> GroupsValue(groups), high |-> FALSE,
                      next |-> Len(groups)]

\* C32: each decoder (CONNECT, CONNACK, PUBLISH, PUBACK, SUBSCRIBE, SUBACK,
\* DISCONNECT) returns an error, never a packet, when the first byte of the
\* frame is not the packet-type byte it expects.
C32_WrongFirstByteRefused ==
    Received("retyped") => Decoded = Fail

\* the same for the decoders of PUBACK, SUBSCRIBE and SUBACK
WrongFirstByteRefusedByThree ==
    (Received("retyped") /\ Built.of.kind \in {"puback", "subscribe", "suback"})
        => Decoded = Fail

ExampleEncoded == pc[1] # "built" /\ pkt[1] = ConnectExample
ExampleBody ==
    <<0, 4, 77, 81, 84, 84, 5, 194, 0, 60, 0, 7, 99, 108, 105, 101, 110, 116, 49,
      0, 4, 117, 115, 101, 114, 0, 8, 112, 97, 115, 115, 119, 111, 114, 100>>

\* C33: ConnectPacket::encode of ("MQTT", level 5, flags 0b11000010, keep_alive
\* 60, client_id "client1", username "user", password "password") is 10 23,
\* then the 35 bytes 00 04 4D 51 54 54 05 C2 00 3C 00 07 "client1" 00 04 "user"
\* 00 08 "password".
C33_ConnectExampleBytes ==
    ExampleEncoded => Wire = <<16, 35>> \o ExampleBody

\* the same bytes after a remaining length of 0x22
C33_ConnectExampleAsStated ==
    ExampleEncoded => Wire = <<16, 34>> \o ExampleBody

\* the example has been encoded and decoded
C33_ExampleSent ==
    Received("connect") /\ pkt[1] = ConnectExample /\ Decoded.ok

\* C34: ConnAckReasonCode::from_byte(c.to_byte()) is Ok(c) for each of the 22
\* CONNACK codes and from_byte is an error for every other byte;
\* DisconnectReasonCode::from_u8 returns a code exactly for 0x00, 0x04, 0x8B
\* and 0x8D, that code converts back to the byte, and from_u8 is None for
\* every other byte.
C34_ReasonCodesConvertBack ==
    /\ Cardinality(DOMAIN ConnAckReasonCode) = 22
    /\ Received("connack_code") => Decoded = [ok |-> TRUE, code |-> Built.code]
    /\ Received("connack_byte") =>
            IF \E c \in DOMAIN ConnAckReasonCode : ConnAckReasonCode[c] = Built.byte
            THEN Decoded.ok /\ ConnAckReasonCode[Decoded.code] = Built.byte
            ELSE Decoded = Fail
    /\ Received("disconnect_byte") =>
            IF Built.byte \in {0, 4, 139, 141}
            THEN Decoded.some /\ DisconnectReasonCode[Decoded.val] = Built.byte
            ELSE Decoded = None

\* a known CONNACK byte, an unknown one and a DISCONNECT byte were converted
C34_BannedConverted ==
    \/ Received("connack_code") /\ Built.code = "Banned" /\ Wire = <<138>>
    \/ Received("connack_byte") /\ Built.byte = 139 /\ ~Decoded.ok
    \/ Received("disconnect_byte") /\ Built.byte = 139 /\ Decoded.some

\* the bytes an optional field takes on the wire
FieldBytes(opt) == IF opt.some THEN 2 + Len(opt.val) ELSE 0

\* the optional fields of the packet built are those its flags announce
OptionsByFlags ==
    /\ Built.will_topic.some <=> (Built.connect_flags \div 4) % 2 = 1
    /\ Built.username.some <=> Built.connect_flags \div 128 = 1
    /\ Built.password.some <=> (Built.connect_flags \div 64) % 2 = 1

\* C37: in every frame of ConnectPacket::encode the will topic and message,
\* the username and the password are on the wire exactly when bits 2, 7 and
\* 6 of connect_flags are set, and the decoder recovers every field the
\* encoder wrote, for the CONNECT of the shipped client (flags 0b00000010
\* with a username and a password) as for the others.
C37_OptionalFieldsByFlags ==
    Received("connect_new") =>
        /\ Len(Wire) = 2 + 12 + Len(Built.client_id)
                + (IF (Built.connect_flags \div 4) % 2 = 1
                   THEN FieldBytes(Built.will_topic) + FieldBytes(Built.will_message) ELSE 0)
                + (IF Built.connect_flags \div 128 = 1 THEN FieldBytes(Built.username) ELSE 0)
                + (IF (Built.connect_flags \div 64) % 2 = 1 THEN FieldBytes(Built.password) ELSE 0)
        /\ SameConnect

\* the same for the packets built with the optional fields their flags
\* announce
OptionalFieldsWhenFlagsAgree ==
    (Received("connect_new") /\ OptionsByFlags) => SameConnect

\* ---- the client on its own (src/bin/client.rs) ----
\*
\* The variables hold the client's state here:
\*   pc[1]     the main task: "menu" (in display_menu), "chosen" (a choice was
\*             read, before the test of the shutdown flag), "done" (left the
\*             loop: the process exits and the listener with it)
\*   pc[2]     the listener thread: "ping" (before the write of PINGREQ), "read"
\*             (in stream.read), "eof" / "error" (left the loop in these arms),
\*             "stopped" (left it otherwise, or panicked)
\*   idx[1]    the choice display_menu returned
\*   pkt[1]    the value under the shutdown_flag mutex
\*   late[2]   more than 60 seconds have passed since last_ping_time
\*   peer[1]   the broker's end of the connection: "open", "fin" (closed: a
\*             read returns 0), "rst" (reset: reads and writes return errors)
\*   out[1]    what the client wrote to its stream, by the thread that wrote
\*   nsent     the choices made and the frames read, bounded by MaxFrames

shutdown_flag == pkt[1].shutdown

\* the CONNECT send_connect_packet writes before the listener is spawned
ShippedConnect ==
    ConnectEncode([protocol_name |-> ProtocolName, protocol_level |-> 5,
                   connect_flags |-> 2, keep_alive |-> 60,
                   client_id |-> <<99, 108, 105, 101, 110, 116, 49>>,
                   will_topic |-> None, will_message |-> None,
                   username |-> Some(<<117, 115, 101, 114>>),
                   password |-> Some(<<112, 97, 115, 115, 119, 111, 114, 100>>)])

\* stream.write by thread `by`: the bytes reach the socket unless the
\* connection was reset; the result tells which
ClientWriteOk == peer[1] # "rst"
ClientWrite(o, by, bytes) == IF ClientWriteOk THEN WriteTo(o, by, 1, bytes) ELSE o

\* send_disconnect_packet: the reason code and the property 0x11
ClientGoodbye(reason_code) ==
    DisconnectEncode(DisconnectReasonCode[reason_code], <<ShippedProperty>>)

ClientInit ==
    /\ pc = [c \in Conn |-> IF c = 1 THEN "menu" ELSE IF c = 2 THEN "ping" ELSE "unborn"]
    /\ peer = [c \in Conn |-> "open"]
    /\ out = [c \in Conn |-> IF c = 1 THEN <<[by |-> 1, bytes |-> ShippedConnect]>> ELSE <<>>]
    /\ registry = <<>>
    /\ clients = <<>>
    /\ guard = 0
    /\ poisoned = FALSE
    /\ late = [c \in Conn |-> FALSE]
    /\ pkt = [c \in Conn |-> IF c = 1 THEN [kind |-> "flag", shutdown |-> FALSE] ELSE NoPacket]
    /\ idx = [c \in Conn |-> 0]
    /\ hello = [c \in Conn |-> "none"]
    /\ packet_type = [c \in Conn |-> 0]
    /\ asked = [c \in Conn |-> {}]
    /\ owed = [c \in Conn |-> <<>>]
    /\ nsent = 0

\* display_menu returns the number typed, 0 for anything that is not one
MenuChoice(choice) ==
    /\ pc[1] = "menu"
    /\ nsent < MaxFrames
    /\ idx' = [idx EXCEPT ![1] = choice]
    /\ pc' = [pc EXCEPT ![1] = "chosen"]
    /\ nsent' = nsent + 1
    /\ UNCHANGED <<peer, out, registry, clients, guard, poisoned, late, pkt,
                   hello, packet_type, asked, owed>>

\* the flag is set: the main task leaves the loop and start_client returns
MainShutdown ==
    /\ pc[1] = "chosen"
    /\ shutdown_flag
    /\ pc' = [pc EXCEPT ![1] = "done"]
    /\ UNCHANGED <<peer, out, registry, clients, guard, poisoned, late, pkt,
                   idx, hello, packet_type, asked, owed, nsent>>

\* choice 1: a PUBLISH (message id 1, QoS 1) on the topic chosen
MainPublish(topic) ==
    /\ pc[1] = "chosen" /\ ~shutdown_flag /\ idx[1] = 1
    /\ out' = ClientWrite(out, 1,
                PublishEncode([topic_name |-> topic, message_id |-> 1, qos |-> 1,
                               retain |-> FALSE, dup |-> FALSE, payload |-> <<104>>]))
    /\ pc' = [pc EXCEPT ![1] = "menu"]
    /\ UNCHANGED <<peer, registry, clients, guard, poisoned, late, pkt,
                   idx, hello, packet_type, asked, owed, nsent>>

\* choice 2: a SUBSCRIBE (packet id 1, QoS 1) to the topic chosen
MainSubscribe(topic) ==
    /\ pc[1] = "chosen" /\ ~shutdown_flag /\ idx[1] = 2
    /\ out' = ClientWrite(out, 1,
                SubscribeEncode([packet_id |-> 1, topic_filters |-> <<topic>>,
                                 qos_values |-> <<1>>]))
    /\ pc' = [pc EXCEPT ![1] = "menu"]
    /\ UNCHANGED <<peer, registry, clients, guard, poisoned, late, pkt,
                   idx, hello, packet_type, asked, owed, nsent>>

\* choice 3: DISCONNECT(NormalDisconnection), then the loop is left
MainDisconnect ==
    /\ pc[1] = "chosen" /\ ~shutdown_flag /\ idx[1] = 3
    /\ out' = ClientWrite(out, 1, ClientGoodbye("NormalDisconnection"))
    /\ pc' = [pc EXCEPT ![1] = "done"]
    /\ UNCHANGED <<peer, registry, clients, guard, poisoned, late, pkt,
                   idx, hello, packet_type, asked, owed, nsent>>

\* any other choice, or a topic number that is not 1, 2 or 3
MainInvalid ==
    /\ pc[1] = "chosen" /\ ~shutdown_flag /\ idx[1] # 3
    /\ pc' = [pc EXCEPT ![1] = "menu"]
    /\ UNCHANGED <<peer, out, registry, clients, guard, poisoned, late, pkt,
                   idx, hello, packet_type, asked, owed, nsent>>

\* the listener writes PINGREQ at the top of its loop: last_ping_time is
\* renewed when the write succeeds, the loop is left when it fails
ListenerPing ==
    /\ pc[1] # "done" /\ pc[2] = "ping"
    /\ out' = ClientWrite(out, 2, PingReqEncode)
    /\ pc' = [pc EXCEPT ![2] = IF ClientWriteOk THEN "read" ELSE "stopped"]
    /\ late' = [late EXCEPT ![2] = IF ClientWriteOk THEN FALSE ELSE @]
    /\ UNCHANGED <<peer, registry, clients, guard, poisoned, pkt,
                   idx, hello, packet_type, asked, owed, nsent>>

\* more than 60 seconds pass while the listener waits in its read
ListenerTick ==
    /\ pc[1] # "done" /\ pc[2] = "read" /\ ~late[2]
    /\ late' = [late EXCEPT ![2] = TRUE]
    /\ UNCHANGED <<pc, peer, out, registry, clients, guard, poisoned, pkt,
                   idx, hello, packet_type, asked, owed, nsent>>

\* the frames the broker may send
ListenerFrames ==
    { ConnAckEncode(FALSE, 0), PubAckEncode(1), SubAckEncode(1, <<1>>), PingRespEncode,
      PublishEncode([topic_name |-> General, message_id |-> 1, qos |-> 1,
                     retain |-> FALSE, dup |-> FALSE, payload |-> <<104>>]),
      PublishEncode([topic_name |-> General, message_id |-> 1, qos |-> 1,
                     retain |-> FALSE, dup |-> FALSE, payload |-> <<200>>]) }

\* a PUBLISH whose payload is not UTF-8 ends the thread in expect()
ListenerPanics(buffer) ==
    /\ PacketType(buffer) = 3
    /\ PublishDecode(buffer).ok
    /\ ~Utf8Ok(PublishDecode(buffer).payload)

\* a read of size > 0: the frame is printed, PINGRESP renews last_ping_time,
\* and the loop is left when more than 60 seconds have passed since
ListenerRead(buffer) ==
    /\ pc[1] # "done" /\ pc[2] = "read" /\ peer[1] = "open"
    /\ nsent < MaxFrames
    /\ nsent' = nsent + 1
    /\ LET renewed == PacketType(buffer) = 13
           elapsed == late[2] /\ ~renewed
       IN /\ late' = [late EXCEPT ![2] = elapsed]
          /\ pc' = [pc EXCEPT ![2] = IF ListenerPanics(buffer) \/ elapsed
                                     THEN "stopped" ELSE "ping"]
    /\ UNCHANGED <<peer, out, registry, clients, guard, poisoned, pkt,
                   idx, hello, packet_type, asked, owed>>

\* a read of size 0: DISCONNECT(ServerShuttingDown), the flag is set
ListenerEof ==
    /\ pc[1] # "done" /\ pc[2] = "read" /\ peer[1] = "fin"
    /\ out' = ClientWrite(out, 2, ClientGoodbye("ServerShuttingDown"))
    /\ pkt' = [pkt EXCEPT ![1].shutdown = TRUE]
    /\ pc' = [pc EXCEPT ![2] = "eof"]
    /\ UNCHANGED <<peer, registry, clients, guard, poisoned, late,
                   idx, hello, packet_type, asked, owed, nsent>>

\* a read error: DISCONNECT(DisconnectWithWillMessage), the loop is left
ListenerError ==
    /\ pc[1] # "done" /\ pc[2] = "read" /\ peer[1] = "rst"
    /\ out' = ClientWrite(out, 2, ClientGoodbye("DisconnectWithWillMessage"))
    /\ pc' = [pc EXCEPT ![2] = "error"]
    /\ UNCHANGED <<peer, registry, clients, guard, poisoned, late, pkt,
                   idx, hello, packet_type, asked, owed, nsent>>

\* the broker closes the connection
BrokerClose ==
    /\ peer[1] = "open"
    /\ peer' = [peer EXCEPT ![1] = "fin"]
    /\ UNCHANGED <<pc, out, registry, clients, guard, poisoned, late, pkt,
                   idx, hello, packet_type, asked, owed, nsent>>

\* the connection is reset
BrokerReset ==
    /\ peer[1] # "rst"
    /\ peer' = [peer EXCEPT ![1] = "rst"]
    /\ UNCHANGED <<pc, out, registry, clients, guard, poisoned, late, pkt,
                   idx, hello, packet_type, asked, owed, nsent>>

ClientNext ==
    \/ \E choice \in 0..3 : MenuChoice(choice)
    \/ MainShutdown
    \/ \E topic \in {General, Status, Random} : MainPublish(topic)
    \/ \E topic \in {General, Status, Random} : MainSubscribe(topic)
    \/ MainDisconnect
    \/ MainInvalid
    \/ ListenerPing
    \/ ListenerTick
    \/ \E buffer \in ListenerFrames : ListenerRead(buffer)
    \/ ListenerEof
    \/ ListenerError
    \/ BrokerClose
    \/ BrokerReset

ClientSpec == ClientInit /\ [][ClientNext]_vars

\* the main task has written DISCONNECT(NormalDisconnection)
MainSaidGoodbye ==
    \E i \in 1..Len(out[1]) :
        out[1][i] = [by |-> 1, bytes |-> ClientGoodbye("NormalDisconnection")]

\* C35: when the read of the listener returns EOF or an error, the listener
\* sets the shutdown flag, and the main task has sent
\* DISCONNECT(NormalDisconnection) when it exits after that.
C35_ListenerEndShutsDown ==
    pc[2] \in {"eof", "error"} =>
        /\ shutdown_flag
        /\ pc[1] = "done" => MainSaidGoodbye

\* after EOF the flag is set
ListenerEofSetsFlag == pc[2] = "eof" => shutdown_flag

\* ---- the keep-alive check of the broker ----

InIteration == {"loop", "pub_lock", "sub_lock", "fanout"}

\* the handler of c, more than 60 seconds after last_ping_time, ends the
\* iteration of a non-empty read in this step
LateIterationEnds(c) ==
    /\ late[c]
    /\ pc[c] \in InIteration /\ pc'[c] \notin InIteration
    /\ ~(pc[c] = "loop" /\ peer[c] # "open")

\* the read was a DISCONNECT frame that decoded: the loop is left at once
GoodbyeRead(c) == pc[c] = "loop" /\ packet_type'[c] = 14 /\ out'[c] = out[c]

\* C36: after each non-empty read of the loop the handler compares the time
\* since last_ping_time with 60 seconds and, when it is greater, writes
\* DISCONNECT(KeepAliveTimeout) and exits, whatever the frame was (a
\* DISCONNECT that decoded aside); only a PINGREQ frame renews
\* last_ping_time.
C36_KeepAliveAfterEveryRead ==
    [][\A c \in Conn :
        /\ (LateIterationEnds(c) /\ ~GoodbyeRead(c)) =>
                /\ pc'[c] = "done"
                /\ out'[c] = Append(out[c], [by |-> c, bytes |-> KeepAliveFrame])
        /\ (late[c] /\ ~late'[c] /\ pc'[c] = "loop") =>
                pc[c] = "loop" /\ packet_type'[c] = 12]_vars

\* the same for the handlers that do not panic
KeepAliveUnlessPanic ==
    [][\A c \in Conn :
        /\ (LateIterationEnds(c) /\ ~GoodbyeRead(c) /\ pc'[c] # "panicked") =>
                /\ pc'[c] = "done"
                /\ out'[c] = Append(out[c], [by |-> c, bytes |-> KeepAliveFrame])
        /\ (late[c] /\ ~late'[c] /\ pc'[c] = "loop") =>
                pc[c] = "loop" /\ packet_type'[c] = 12]_vars

\* ---- SUBACK, the registry insertion and the publishers ----

\* the topic filters of the SUBSCRIBE the handler of h has answered with a
\* SUBACK and not yet put into the registry
Answered(h) ==
    IF pc[h] = "sub_lock"
    THEN { pkt[h].p.topic_filters[i] : i \in 1..Len(pkt[h].p.topic_filters) }
    ELSE {}

\* the handler of c takes the registry guard to route its PUBLISH
StartsRouting(c) == pc[c] = "pub_lock" /\ pc'[c] # "pub_lock"

\* the subscriber loop of c will come to a handle of h
ReachedBy(c, h) ==
    /\ pkt[c].p.topic_name \in DOMAIN registry
    /\ h \in Handles(pkt[c].p.topic_name)

\* C38: for a topic the broker registers, once the SUBACK of a session's
\* SUBSCRIBE has been written, every PUBLISH on that topic another
\* connection's handler starts routing is routed to that session.
C38_NoPublishMissedAfterSubAck ==
    [][\A c \in Conn : \A h \in Conn \ {c} :
        (/\ StartsRouting(c)
         /\ Registers(pkt[c].p.topic_name)
         /\ pkt[c].p.topic_name \in asked[h] \cup Answered(h)) => ReachedBy(c, h)]_vars

\* the same once the insertion of the SUBSCRIBE is done
NoPublishMissedAfterInsert ==
    [][\A c \in Conn : \A h \in Conn \ {c} :
        (/\ StartsRouting(c)
         /\ Registers(pkt[c].p.topic_name)
         /\ pkt[c].p.topic_name \in asked[h]) => ReachedBy(c, h)]_vars

\* ---- the keys of the registry ----

\* reg holds every key of the registry and, under each, its handles in
\* their order, followed by those pushed since
Extends(reg, old) ==
    /\ DOMAIN old \subseteq DOMAIN reg
    /\ \A t \in DOMAIN old :
          /\ Len(old[t]) <= Len(reg[t])
          /\ SubSeq(reg[t], 1, Len(old[t])) = old[t]

\* C40: the keys of the registry are among "General", "Status" and
\* "Random" in every reachable state; the insertion of a SUBSCRIBE, which
\* was answered with a SUBACK, pushes the session under the topics of that
\* list it names and adds nothing for any other topic; no step removes a key
\* or a handle.
C40_RegistryKeysAmongThree ==
    /\ [](DOMAIN registry \subseteq {General, Status, Random})
    /\ [][/\ Extends(registry', registry)
          /\ \A c \in Conn :
                (pc[c] = "sub_lock" /\ pc'[c] \in {"loop", "done"}) =>
                    /\ WrittenType(c, c, 9) # {}
                    /\ \A i \in 1..Len(pkt[c].p.topic_filters) :
                          LET t == pkt[c].p.topic_filters[i]
                          IN IF t \in {General, Status, Random}
                             THEN /\ t \in DOMAIN registry'
                                  /\ c \in { registry'[t][k] : k \in 1..Len(registry'[t]) }
                             ELSE t \notin DOMAIN registry']_vars

\* a SUBSCRIBE for "Status" and "t" was inserted: the session is under
\* "Status" and no key "t" exists
C40_OtherTopicAsked ==
    \E c \in Conn :
        /\ OtherTopic \in asked[c]
        /\ Status \in DOMAIN registry
        /\ c \in Handles(Status)
        /\ pc[c] = "loop"

\* the same for the packets that carry a message id (qos 1 and 2)
PublishRoundTripAboveQos0 ==
    (Received("publish") /\ Built.qos > 0) =>
        /\ Decoded = [ok |-> TRUE, topic_name |-> Built.topic_name,
                      message_id |-> Built.message_id, qos |-> Built.qos,
                      retain |-> Built.retain, dup |-> Built.dup,
                      payload |-> Built.payload]
        /\ Len(Wire) = 2 + 2 + Len(Built.topic_name) + 2 + Len(Built.payload)

\* ---- the SUBSCRIBE arm on its own ----

\* the SUBSCRIBE requests a client may build: the four QoS values of the
\* protocol and beyond, one filter or several, small and large packet ids
SubscribeRequests ==
    { [packet_id |-> 258, topic_filters |-> <<General, Status, Random, OtherTopic>>,
       qos_values |-> <<0, 1, 2, 3>>],
      [packet_id |-> 65535, topic_filters |-> <<Status, General>>,
       qos_values |-> <<3, 0>>],
      [packet_id |-> 1, topic_filters |-> <<General>>, qos_values |-> <<1>>],
      [packet_id |-> 0, topic_filters |-> <<OtherTopic>>, qos_values |-> <<255>>],
      [packet_id |-> 7, topic_filters |-> <<>>, qos_values |-> <<>>] }

SubscribeReads ==
    { [bytes |-> SubscribeEncode(p), frames |-> <<SubscribeEncode(p)>>] :
        p \in SubscribeRequests }

\* clients that connect and then only subscribe; nobody closes,
\* resets or falls silent
SubscribeNext ==
    \E c \in Conn :
        \/ Accept(c)
        \/ FirstRead(c, [bytes |-> ConnectFrame, frames |-> <<ConnectFrame>>])
        \/ \E read \in SubscribeReads : ReadFrame(c, read)
        \/ SubInsert(c)

SubscribeSpec == Init /\ [][SubscribeNext]_vars

\* the return code the protocol asks for a requested QoS
Granted(qos) == IF qos \in {0, 1, 2} THEN qos ELSE 128

\* C11: the step in which a SUBSCRIBE is decoded appends one SUBACK to the
\* sender's socket, with the request's packet id and, position by position,
\* the requested QoS when it is 0, 1 or 2 and 0x80 otherwise, one code per
\* topic filter; no other step writes a SUBACK.
C11_SubAckAnswersRequest ==
    [][\A c \in Conn :
        LET decoded == pc[c] = "loop" /\ pc'[c] = "sub_lock"
            request == pkt'[c].p
            n == Len(request.topic_filters)
        IN /\ decoded =>
                /\ Len(out'[c]) = Len(out[c]) + 1
                /\ SubSeq(out'[c], 1, Len(out[c])) = out[c]
                /\ out'[c][Len(out'[c])] =
                      [by |-> c,
                       bytes |-> <<144, 2 + n, request.packet_id \div 256,
                                   request.packet_id % 256>>
                                 \o [i \in 1..n |-> Granted(request.qos_values[i])]]
           /\ ~decoded =>
                Cardinality({ i \in 1..Len(out'[c]) : out'[c][i].bytes[1] = 144 })
                    = Cardinality({ i \in 1..Len(out[c]) : out[c][i].bytes[1] = 144 })
      ]_vars

\* the request [0, 1, 2, 3] with packet id 0x0102 was answered
C11_FourCodesWritten ==
    \E c \in Conn : \E i \in 1..Len(out[c]) :
        out[c][i].bytes = <<144, 6, 1, 2, 0, 1, 2, 128>>

\* the worker of connection c died in lock().unwrap() (line 107 or 162): the
\* subscriber loop, which sets idx, was not entered
DiedAtLock(c) == pc[c] = "panicked" /\ idx[c] = 0

\* C12: no handler whose own connection is sound dies at the lock of the
\* registry because of what happened on another connection: the mutex
\* stays usable for it.
C12_FailuresStayLocal ==
    \A c \in Conn : ~(DiedAtLock(c) /\ peer[c] = "open")

\* the worker of connection c died inside the subscriber loop (line 110)
DiedInFanout(c) == pc[c] = "panicked" /\ idx[c] >= 1

\* C13: a subscriber handle that fails during the fan-out does not end the
\* publisher's handler: a publisher whose own connection answers
\* peer_addr() never dies inside the subscriber loop.
C13_FanoutSurvivesSubscriber ==
    \A c \in Conn : ~(DiedInFanout(c) /\ PeerAddrOk(c))

\* ---- the broker hop of a PUBLISH on its own ----

\* the PUBLISH packets a publisher builds (PublishPacket::new)
PublishRequests ==
    { [topic_name |-> t, message_id |-> IF q > 0 THEN 1 ELSE 0, qos |-> q,
       retain |-> f[1], dup |-> f[2], payload |-> b] :
        t \in {General, Status}, q \in {0, 1, 2},
        f \in {<<FALSE, FALSE>>, <<TRUE, FALSE>>, <<FALSE, TRUE>>},
        b \in {<<>>, <<0, 105>>} }

RelayFrames ==
    { PublishEncode(q) : q \in PublishRequests }
        \cup { SubscribeEncode([packet_id |-> 1, topic_filters |-> <<General, Status>>,
                                qos_values |-> <<0, 1>>]) }

\* clients that connect, subscribe and publish; every read returns one
\* frame and nobody closes, resets or falls silent
RelayNext ==
    \E c \in Conn :
        \/ Accept(c)
        \/ FirstRead(c, [bytes |-> ConnectFrame, frames |-> <<ConnectFrame>>])
        \/ \E f \in RelayFrames : ReadFrame(c, [bytes |-> f, frames |-> <<f>>])
        \/ SubInsert(c)
        \/ PubLock(c)
        \/ FanoutWrite(c)
        \/ FanoutEnd(c)

RelaySpec == Init /\ [][RelayNext]_vars

\* ---- a subscriber that stops accepting writes ----

\* clients that connect, subscribe and publish, and may stop reading what
\* the broker writes to them; a client that has stopped sends nothing
StallNext ==
    \E c \in Conn :
        \/ Accept(c)
        \/ FirstRead(c, [bytes |-> ConnectFrame, frames |-> <<ConnectFrame>>])
        \/ \E f \in RelayFrames : ReadFrame(c, [bytes |-> f, frames |-> <<f>>])
        \/ SubInsert(c)
        \/ PubLock(c)
        \/ FanoutWrite(c)
        \/ FanoutEnd(c)
        \/ PeerStall(c)
        \/ PeerDrain(c)

StallSpec == Init /\ [][StallNext]_vars

\* the handler of c is in subscriber.write on the socket of h, which does
\* not accept the bytes
BlockedOn(c, h) ==
    /\ pc[c] = "fanout"
    /\ idx[c] <= Len(Subscribers(c))
    /\ h = Subscribers(c)[idx[c]]
    /\ NotSender(h, c)
    /\ ~Accepts(h)

\* C39: while a handler's write to a subscriber is blocked, the handlers of
\* the other connections can take the registry guard and go on with their
\* SUBSCRIBE and PUBLISH.
C39_BlockedWriteDelaysOnlyItsHandler ==
    \A c \in Conn : \A h \in Conn : \A d \in Conn \ {c} :
        BlockedOn(c, h) =>
            /\ pc[d] = "pub_lock" => ENABLED PubLock(d)
            /\ pc[d] = "sub_lock" => ENABLED SubInsert(d)

\* the handler whose write is blocked holds the registry guard
BlockedWriterHoldsGuard ==
    \A c \in Conn : \A h \in Conn : BlockedOn(c, h) => guard = c

\* the fields of a PUBLISH the broker is to preserve
SameMessage(m, q) ==
    /\ m.topic_name = q.topic_name
    /\ m.qos = q.qos
    /\ m.retain = q.retain
    /\ m.dup = q.dup
    /\ m.payload = q.payload

\* C14: whenever the handler of publisher c writes a PUBLISH to subscriber
\* h, what the subscriber decodes from the bytes written has the topic,
\* qos, retain, dup and payload of the packet the publisher built, the one
\* whose frame the handler is routing.
C14_RelayedPublishIntact ==
    [][\A c \in Conn : \A h \in Conn \ {c} :
        LET n == Len(out'[h])
        IN (n > Len(out[h]) /\ out'[h][n].by = c) =>
              \A q \in PublishRequests :
                  PublishDecode(PublishEncode(q)) = pkt[c].p =>
                      LET m == PublishDecode(out'[h][n].bytes)
                      IN m.ok /\ SameMessage(m, q)
      ]_vars

\* the same for the packets that carry a message id (qos 1 and 2)
RelayedIntactAboveQos0 ==
    [][\A c \in Conn : \A h \in Conn \ {c} :
        LET n == Len(out'[h])
        IN (n > Len(out[h]) /\ out'[h][n].by = c) =>
              \A q \in PublishRequests :
                  (q.qos > 0 /\ PublishDecode(PublishEncode(q)) = pkt[c].p) =>
                      LET m == PublishDecode(out'[h][n].bytes)
                      IN m.ok /\ SameMessage(m, q)
      ]_vars

\* the steps a worker takes without anything new from its client: a read
\* that returns Ok(0) or Err, the lock, the subscriber loop
Scheduled(c) ==
    \/ FirstReadNothing(c)
    \/ ReadError(c)
    \/ ReadEof(c)
    \/ LockPoisoned(c)
    \/ PubLock(c)
    \/ FanoutWrite(c)
    \/ FanoutPanic(c)
    \/ FanoutEnd(c)
    \/ SubInsert(c)

\* every worker thread is scheduled; clients send, close and fall silent as
\* they please
FairSpec == Spec /\ \A c \in Conn : WF_vars(Scheduled(c))

\* a connected client whose last_ping_time is more than 60 s old, with the
\* worker waiting in the read of the loop
Silent(c) ==
    hello[c] = "connect" /\ pc[c] = "loop" /\ peer[c] = "open" /\ late[c]

\* C7: a connected client that sent nothing for more than 60 seconds does
\* not stay so for ever: the broker writes DISCONNECT(0x8D) and the handler
\* ends, unless the client sends or closes first.
C7_SilentClientDisconnected ==
    \A c \in Conn : Silent(c) ~> ~Silent(c)

====
